---- MODULE Spec2Model ----
(***************************************************************************)
(* A model of git-line-stage.py: the hunk model, the change addresser      *)
(* (flat_file_lines_with_numbers), the selective patcher                    *)
(* (apply_selected_changes_to_old), apply_one_file over a git index and a  *)
(* working tree, by one caller and by two that are not serialized, the     *)
(* apply command's parse_number_tokens, the hunk parser                     *)
(* (parse_unified_diff) read line by line, the pages of list_files and the *)
(* read-only calls (list_files, diff, current_file_lines).  The unstack     *)
(* operation (do_unstack), whose code is outside src/, is modelled from    *)
(* its specification and its tests.                                         *)
(*                                                                          *)
(* A line of text is a sequence of one-character strings, so that a raw     *)
(* hunk line ln splits into its marker ln[1] (Python ln[0]) and its text    *)
(* Tail(ln) (Python ln[1:]) the way the code splits it.                     *)
(***************************************************************************)
EXTENDS Integers, Sequences, FiniteSets, TLC

\* ------------------------------------------------------------- constants

\* Context width for apply (fixed)
UNIFIED_APPLY == 3

\* ---------------------------------------------------------------- bounds

\* Longest original line sequence handed to the patcher with a free hunk.
MaxOld == 2
\* Most tagged lines in a freely drawn hunk.
MaxHunkLines == 2
\* Longest edit script from which a unified diff is derived.
MaxScript == 4

\* ------------------------------------------------------------- utilities

SeqsUpTo(S, n) == UNION {[1..k -> S] : k \in 0..n}

Reverse(q) == [i \in 1..Len(q) |-> q[Len(q) + 1 - i]]

Min(a, b) == IF a < b THEN a ELSE b

Max(a, b) == IF a > b THEN a ELSE b

\* The line texts the model draws from.
Texts == {<<"a">>, <<"b">>}

\* ------------------------------------------------------------ hunk model

\* HunkRaw: the header string is kept by the code for display only and is
\* never read again, so the record holds the parsed fields.
HunkRaw(path, old_start, old_lines, new_start, new_lines, all_lines) ==
    [path |-> path, old_start |-> old_start, old_lines |-> old_lines,
     new_start |-> new_start, new_lines |-> new_lines, all_lines |-> all_lines]

\* key=lambda x: (x.old_start, x.new_start)
HunkKeyLess(h, g) ==
    \/ h.old_start < g.old_start
    \/ h.old_start = g.old_start /\ h.new_start < g.new_start

\* Insert h into the sorted list hs after every element that is not greater
\* (Python's sorted is stable).
RECURSIVE InsertHunk(_, _)
InsertHunk(h, hs) ==
    IF hs = <<>> THEN <<h>>
    ELSE IF HunkKeyLess(h, Head(hs)) THEN <<h>> \o hs
    ELSE <<Head(hs)>> \o InsertHunk(h, Tail(hs))

\* A variant that takes the hunks in the order of the list it receives.
SortHunks_AsReceived(hs) == hs

\* sorted(hunks, key=lambda x: (x.old_start, x.new_start))
RECURSIVE SortHunks(_)
SortHunks(hs) ==
    IF hs = <<>> THEN <<>>
    ELSE InsertHunk(hs[Len(hs)], SortHunks(SubSeq(hs, 1, Len(hs) - 1)))

\* ------------------------------------------------------ selective patcher

\* The patcher's locals between two iterations of its loops: phase names the
\* place in the code ("hunk": top of the for-loop over hunks, "line": top of
\* the for-loop over h.all_lines, "tail": the final while-loop, "done": the
\* return, "error": a raised ValueError, whose partial output is dropped).
PatchState(phase, hi, li, old_pos, num_counter, new, err) ==
    [phase |-> phase, hi |-> hi, li |-> li, old_pos |-> old_pos,
     num_counter |-> num_counter, new |-> new, err |-> err]

PatchStart(hs) ==
    PatchState(IF hs = <<>> THEN "tail" ELSE "hunk", 1, 1, 1, 1, <<>>, "none")

PatchError(s, err) ==
    PatchState("error", s.hi, s.li, s.old_pos, s.num_counter, <<>>, err)

\* Where the loops go after line li of hunk hi (hs is the sorted list).
AfterLine(hs, s, old_pos, num_counter, new) ==
    IF s.li < Len(hs[s.hi].all_lines)
    THEN PatchState("line", s.hi, s.li + 1, old_pos, num_counter, new, "none")
    ELSE IF s.hi < Len(hs)
    THEN PatchState("hunk", s.hi + 1, 1, old_pos, num_counter, new, "none")
    ELSE PatchState("tail", s.hi, s.li, old_pos, num_counter, new, "none")

\* A variant that moves the cursor to the hunk without copying the lines
\* before it.
CopyUntil_Jumps(old, pre_start, old_pos, new) ==
    [old_pos |-> IF old_pos < pre_start THEN Min(pre_start, Len(old) + 1) ELSE old_pos,
     new |-> new]

\* while old_pos < pre_start: if old_pos - 1 >= len(old_lines): break; ...
RECURSIVE CopyUntil(_, _, _, _)
CopyUntil(old, pre_start, old_pos, new) ==
    IF old_pos < pre_start /\ ~(old_pos - 1 >= Len(old))
    THEN CopyUntil(old, pre_start, old_pos + 1, Append(new, old[old_pos]))
    ELSE [old_pos |-> old_pos, new |-> new]

\* The bound test at the top of a hunk.
HunkOutOfBounds(pre_start, n) == pre_start - 1 > n + 1

\* The top of the for-loop over hunks: the bound test and the copy of the
\* lines before the hunk.
HunkPrologue(old, hs, s) ==
    LET h == hs[s.hi]
        pre_start == IF h.old_start > 0 THEN h.old_start ELSE 1
    IN  IF HunkOutOfBounds(pre_start, Len(old)) THEN PatchError(s, "out_of_bounds")
        ELSE LET c == CopyUntil(old, pre_start, s.old_pos, s.new)
             IN  IF h.all_lines = <<>>
                 THEN IF s.hi < Len(hs)
                      THEN PatchState("hunk", s.hi + 1, 1, c.old_pos, s.num_counter, c.new, "none")
                      ELSE PatchState("tail", s.hi, 1, c.old_pos, s.num_counter, c.new, "none")
                 ELSE PatchState("line", s.hi, 1, c.old_pos, s.num_counter, c.new, "none")

\* A variant that takes a context line without comparing it.
ContextLine_Unchecked(old, hs, s, text) ==
    IF s.old_pos - 1 >= Len(old) THEN PatchError(s, "context_beyond_end")
    ELSE AfterLine(hs, s, s.old_pos + 1, s.num_counter, Append(s.new, old[s.old_pos]))

\* sign == " "
ContextLine(old, hs, s, text) ==
    IF s.old_pos - 1 >= Len(old) THEN PatchError(s, "context_beyond_end")
    ELSE IF old[s.old_pos] # text THEN PatchError(s, "context_mismatch")
    ELSE AfterLine(hs, s, s.old_pos + 1, s.num_counter, Append(s.new, old[s.old_pos]))

\* A variant that compares a removed line with the original only when the
\* line is selected.
RemovedLine_ComparedWhenSelected(old, hs, want, s, text) ==
    IF s.old_pos - 1 >= Len(old) THEN PatchError(s, "deletion_beyond_end")
    ELSE IF s.num_counter \in want /\ old[s.old_pos] # text
    THEN PatchError(s, "deletion_mismatch")
    ELSE AfterLine(hs, s, s.old_pos + 1, s.num_counter + 1,
                   IF s.num_counter \in want THEN s.new
                   ELSE Append(s.new, old[s.old_pos]))

\* A variant that keeps the selected removed lines and drops the others.
RemovedLine_KeepsSelected(old, hs, want, s, text) ==
    IF s.old_pos - 1 >= Len(old) THEN PatchError(s, "deletion_beyond_end")
    ELSE IF old[s.old_pos] # text THEN PatchError(s, "deletion_mismatch")
    ELSE AfterLine(hs, s, s.old_pos + 1, s.num_counter + 1,
                   IF s.num_counter \in want THEN Append(s.new, old[s.old_pos])
                   ELSE s.new)

\* sign == "-"
RemovedLine(old, hs, want, s, text) ==
    IF s.old_pos - 1 >= Len(old) THEN PatchError(s, "deletion_beyond_end")
    ELSE IF old[s.old_pos] # text THEN PatchError(s, "deletion_mismatch")
    ELSE AfterLine(hs, s, s.old_pos + 1, s.num_counter + 1,
                   IF s.num_counter \in want THEN s.new
                   ELSE Append(s.new, old[s.old_pos]))

\* A variant that emits every added line, selected or not.
AddedLine_EmitsAll(hs, want, s, text) ==
    AfterLine(hs, s, s.old_pos, s.num_counter + 1, Append(s.new, text))

\* A variant that counts only the added lines it emits.
AddedLine_CountsEmitted(hs, want, s, text) ==
    IF s.num_counter \in want
    THEN AfterLine(hs, s, s.old_pos, s.num_counter + 1, Append(s.new, text))
    ELSE AfterLine(hs, s, s.old_pos, s.num_counter, s.new)

\* A variant that moves the cursor past an original line for an added line.
AddedLine_MovesCursor(hs, want, s, text) ==
    AfterLine(hs, s, s.old_pos + 1, s.num_counter + 1,
              IF s.num_counter \in want THEN Append(s.new, text) ELSE s.new)

\* A variant that numbers the changes from 0.
AddedLine_CountsFromZero(hs, want, s, text) ==
    AfterLine(hs, s, s.old_pos, s.num_counter + 1,
              IF s.num_counter - 1 \in want THEN Append(s.new, text) ELSE s.new)

\* sign == "+"
AddedLine(hs, want, s, text) ==
    AfterLine(hs, s, s.old_pos, s.num_counter + 1,
              IF s.num_counter \in want THEN Append(s.new, text) ELSE s.new)

\* One iteration of the for-loop over h.all_lines.
HunkLine(old, hs, want, s) ==
    LET ln == hs[s.hi].all_lines[s.li]
    IN  IF ln = <<>> THEN AfterLine(hs, s, s.old_pos, s.num_counter, s.new)
        ELSE LET sign == ln[1]
                 text == Tail(ln)
             IN  IF sign = " " THEN ContextLine(old, hs, s, text)
                 ELSE IF sign = "-" THEN RemovedLine(old, hs, want, s, text)
                 ELSE IF sign = "+" THEN AddedLine(hs, want, s, text)
                 ELSE PatchError(s, "unexpected_marker")

\* while old_pos - 1 < len(old_lines): new.append(...); old_pos += 1
RECURSIVE CopyRest(_, _, _)
CopyRest(old, old_pos, new) ==
    IF old_pos - 1 < Len(old)
    THEN CopyRest(old, old_pos + 1, Append(new, old[old_pos]))
    ELSE [old_pos |-> old_pos, new |-> new]

PatchTail(old, s) ==
    LET c == CopyRest(old, s.old_pos, s.new)
    IN  PatchState("done", s.hi, s.li, c.old_pos, s.num_counter, c.new, "none")

\* One step of apply_selected_changes_to_old from the locals s.
PatchStep(old, hs, want, s) ==
    IF s.phase = "hunk" THEN HunkPrologue(old, hs, s)
    ELSE IF s.phase = "line" THEN HunkLine(old, hs, want, s)
    ELSE IF s.phase = "tail" THEN PatchTail(old, s)
    ELSE s

RECURSIVE PatchRun(_, _, _, _)
PatchRun(old, hs, want, s) ==
    IF s.phase \in {"done", "error"} THEN s
    ELSE PatchRun(old, hs, want, PatchStep(old, hs, want, s))

\* apply_selected_changes_to_old: the returned list, or the raised ValueError.
apply_selected_changes_to_old(old, hunks, want) ==
    LET hs == SortHunks(hunks)
        s == PatchRun(old, hs, want, PatchStart(hs))
    IN  IF s.phase = "done" THEN [ok |-> TRUE, lines |-> s.new, err |-> "none"]
        ELSE [ok |-> FALSE, lines |-> <<>>, err |-> s.err]

\* ------------------------------------------------------ change addresser

DigitChar(d) == <<"0", "1", "2", "3", "4", "5", "6", "7", "8", "9">>[d + 1]

RECURSIVE Decimal(_)
Decimal(n) == IF n < 10 THEN <<DigitChar(n)>> ELSE Append(Decimal(n \div 10), DigitChar(n % 10))

RECURSIVE ZeroPad(_, _)
ZeroPad(digits, width) == IF Len(digits) >= width THEN digits ELSE ZeroPad(<<"0">> \o digits, width)

\* f"{n:04d}"
Format04d(n) == ZeroPad(Decimal(n), 4)

Indent8 == <<" ", " ", " ", " ", " ", " ", " ", " ">>

\* f"{n:04d}: {sign} {text}"
NumberedLine(n, sign, text) == Format04d(n) \o <<":", " ", sign, " ">> \o text

\* The for-loop over h.all_lines of flat_file_lines_with_numbers, from line li
\* with the counter at n.
RECURSIVE FlatHunk(_, _, _, _)
FlatHunk(all_lines, li, n, out) ==
    IF li > Len(all_lines) THEN [n |-> n, out |-> out]
    ELSE LET ln == all_lines[li]
             sign == ln[1]
             text == Tail(ln)
         IN  IF sign \in {"+", "-"}
             THEN FlatHunk(all_lines, li + 1, n + 1, Append(out, NumberedLine(n, sign, text)))
             ELSE IF sign = " "
             THEN FlatHunk(all_lines, li + 1, n, Append(out, Indent8 \o text))
             ELSE FlatHunk(all_lines, li + 1, n, out)

RECURSIVE FlatFrom(_, _, _, _)
FlatFrom(hs, hi, n, out) ==
    IF hi > Len(hs) THEN out
    ELSE LET sep == IF hi > 1 THEN Append(out, Indent8 \o <<".", ".", ".">>) ELSE out
             r == FlatHunk(hs[hi].all_lines, 1, n, sep)
         IN  FlatFrom(hs, hi + 1, r.n, r.out)

\* flat_file_lines_with_numbers
flat_file_lines_with_numbers(hunks) == FlatFrom(SortHunks(hunks), 1, 1, <<>>)

\* ------------------------------------------------------------ git diff

\* An edit script: the lines of a diff before they are cut into hunks, each
\* tagged " " (in both files), "-" (only in the old file) or "+" (only in the
\* new file).
EditOp(sign, text) == [sign |-> sign, text |-> text]

OnOldSide(op) == op.sign \in {" ", "-"}

OnNewSide(op) == op.sign \in {" ", "+"}

RECURSIVE SideOf(_, _)
SideOf(script, old_side) ==
    IF script = <<>> THEN <<>>
    ELSE LET op == Head(script)
             keep == IF old_side THEN OnOldSide(op) ELSE OnNewSide(op)
         IN  (IF keep THEN <<op.text>> ELSE <<>>) \o SideOf(Tail(script), old_side)

\* The file before and after the edit script.
OldOf(script) == SideOf(script, TRUE)

NewOf(script) == SideOf(script, FALSE)

ChangeIdx(script) == {i \in 1..Len(script) : script[i].sign # " "}

NumChanges(script) == Cardinality(ChangeIdx(script))

CountSide(script, from, to, old_side) ==
    Cardinality({i \in from..to :
                    IF old_side THEN OnOldSide(script[i]) ELSE OnNewSide(script[i])})

\* git cuts the script into hunks: a change opens a hunk unless the change
\* before it is at most 2 * unified common lines away.
OpensHunk(script, unified, c) ==
    \A p \in ChangeIdx(script) : p < c => c - p - 1 > 2 * unified

ClosesHunk(script, unified, c) ==
    \A n \in ChangeIdx(script) : n > c => n - c - 1 > 2 * unified

\* The hunk that the change at index first opens: unified lines of context
\* around its changes, and the header git prints for it (a side with no line
\* is given the number of the line before it).
HunkFrom(path, script, unified, first) ==
    LET last == CHOOSE c \in ChangeIdx(script) :
                    /\ c >= first
                    /\ ClosesHunk(script, unified, c)
                    /\ \A d \in ChangeIdx(script) :
                           (d >= first /\ ClosesHunk(script, unified, d)) => c <= d
        from == Max(1, first - unified)
        to == Min(Len(script), last + unified)
        c1 == CountSide(script, from, to, TRUE)
        c2 == CountSide(script, from, to, FALSE)
        s1 == CountSide(script, 1, from - 1, TRUE) + 1
        s2 == CountSide(script, 1, from - 1, FALSE) + 1
    IN  HunkRaw(path,
                IF c1 > 0 THEN s1 ELSE s1 - 1, c1,
                IF c2 > 0 THEN s2 ELSE s2 - 1, c2,
                [i \in 1..(to - from + 1) |->
                    <<script[from + i - 1].sign>> \o script[from + i - 1].text])

RECURSIVE HunksFromIndex(_, _, _, _)
HunksFromIndex(path, script, unified, c) ==
    IF c > Len(script) THEN <<>>
    ELSE (IF c \in ChangeIdx(script) /\ OpensHunk(script, unified, c)
          THEN <<HunkFrom(path, script, unified, c)>> ELSE <<>>)
         \o HunksFromIndex(path, script, unified, c + 1)

\* The hunks of `git diff --unified=<unified>` for one path, as
\* parse_unified_diff returns them.
UnifiedHunks(path, script, unified) == HunksFromIndex(path, script, unified, 1)

\* The lines of a file as git compares them: the text and whether the line
\* is terminated (the last line of a file without a final newline is not).
TermLines(content) ==
    [i \in 1..Len(content.lines) |->
        [text |-> content.lines[i], eol |-> i < Len(content.lines) \/ content.nl]]

RECURSIVE LcsLen(_, _, _, _)
LcsLen(old, new, i, j) ==
    IF i > Len(old) \/ j > Len(new) THEN 0
    ELSE IF old[i] = new[j] THEN 1 + LcsLen(old, new, i + 1, j + 1)
    ELSE Max(LcsLen(old, new, i + 1, j), LcsLen(old, new, i, j + 1))

\* A shortest edit script from old to new (lines as TermLines), walked from
\* the top: a common line is kept, otherwise the old line is removed unless
\* only adding the new line keeps a longest common subsequence.
RECURSIVE EditWalk(_, _, _, _)
EditWalk(old, new, i, j) ==
    IF i > Len(old) /\ j > Len(new) THEN <<>>
    ELSE IF i <= Len(old) /\ j <= Len(new) /\ old[i] = new[j]
    THEN <<EditOp(" ", old[i].text)>> \o EditWalk(old, new, i + 1, j + 1)
    ELSE IF j > Len(new)
            \/ (i <= Len(old) /\ LcsLen(old, new, i + 1, j) >= LcsLen(old, new, i, j + 1))
    THEN <<EditOp("-", old[i].text)>> \o EditWalk(old, new, i + 1, j)
    ELSE <<EditOp("+", new[j].text)>> \o EditWalk(old, new, i, j + 1)

SelectSign(script, sign) == SelectSeq(script, LAMBDA op : op.sign = sign)

\* git prints the removed lines of a block of changes before its added lines.
RECURSIVE RemovedFirst(_, _)
RemovedFirst(script, block) ==
    IF script = <<>> THEN SelectSign(block, "-") \o SelectSign(block, "+")
    ELSE IF Head(script).sign = " "
    THEN SelectSign(block, "-") \o SelectSign(block, "+") \o <<Head(script)>>
         \o RemovedFirst(Tail(script), <<>>)
    ELSE RemovedFirst(Tail(script), Append(block, Head(script)))

\* The edit script git diff finds between two text contents.
DiffScript(old_content, new_content) ==
    RemovedFirst(EditWalk(TermLines(old_content), TermLines(new_content), 1, 1), <<>>)

\* ------------------------------------------------- index and working tree

EmptyContent == [binary |-> FALSE, lines |-> <<>>, nl |-> FALSE]

\* The one binary content of the model.
BinaryContent == [binary |-> TRUE, lines |-> <<>>, nl |-> FALSE]

NoEntry == [present |-> FALSE, content |-> EmptyContent, mode |-> "none"]

NoFile == [present |-> FALSE, content |-> EmptyContent, exec |-> FALSE]

\* get_diff_with_untracked followed by parse_unified_diff, for the one path:
\* listed says whether the path is a key of files_hunks.
Parsed(listed, binary, hunks) == [listed |-> listed, binary |-> binary, hunks |-> hunks]

NotListed == Parsed(FALSE, FALSE, <<>>)

GitDiff(path, entry, file, unified) ==
    IF ~entry.present /\ ~file.present THEN NotListed
    ELSE IF ~entry.present
    THEN \* untracked: git diff --no-index /dev/null <path>
         IF file.content.binary THEN Parsed(TRUE, TRUE, <<>>)
         ELSE IF file.content.lines = <<>> THEN NotListed
         ELSE Parsed(TRUE, FALSE,
                     UnifiedHunks(path, DiffScript(EmptyContent, file.content), unified))
    ELSE IF ~file.present
    THEN \* deleted: "+++ /dev/null", the path comes from "--- a/<path>"; a
         \* binary deletion prints "Binary files a/<path> and /dev/null differ",
         \* which the parser's pattern does not match
         IF entry.content.binary \/ entry.content.lines = <<>> THEN NotListed
         ELSE Parsed(TRUE, FALSE,
                     UnifiedHunks(path, DiffScript(entry.content, EmptyContent), unified))
    ELSE IF entry.content = file.content THEN NotListed
    ELSE IF entry.content.binary \/ file.content.binary THEN Parsed(TRUE, TRUE, <<>>)
    ELSE Parsed(TRUE, FALSE,
                UnifiedHunks(path, DiffScript(entry.content, file.content), unified))

\* git_read_index_text: `git show :path` prints nothing for a path without
\* an entry.
git_read_index_text(entry) ==
    IF entry.present THEN [lines |-> entry.content.lines, nl |-> entry.content.nl]
    ELSE [lines |-> <<>>, nl |-> FALSE]

\* detect_mode_for_path
detect_mode_for_path(entry, file, fallback_mode) ==
    IF entry.present THEN entry.mode
    ELSE IF file.present /\ file.exec THEN "100755"
    ELSE fallback_mode

\* The content whose text is "\n".join(new_lines), plus "\n" when
\* had_trailing_nl: no line gives the empty file or, with the newline, one
\* empty line.
JoinedContent(new_lines, had_trailing_nl) ==
    IF new_lines = <<>>
    THEN IF had_trailing_nl THEN [binary |-> FALSE, lines |-> << <<>> >>, nl |-> TRUE]
         ELSE EmptyContent
    ELSE [binary |-> FALSE, lines |-> new_lines, nl |-> had_trailing_nl]

\* update_index_with_content: the entry bound to the path afterwards.
update_index_with_content(mode, content) ==
    [present |-> TRUE, content |-> content, mode |-> mode]

\* len(line) >= 4 and line[:4].isdigit()
StartsWithNumber(line) ==
    Len(line) >= 4 /\ \A k \in 1..4 : line[k] \in {"0", "1", "2", "3", "4", "5", "6", "7", "8", "9"}

\* current_file_lines
current_file_lines(path, entry, file, unified) ==
    LET d == GitDiff(path, entry, file, unified)
    IN  [path |-> path, binary |-> d.binary,
         lines |-> IF d.binary THEN <<>> ELSE flat_file_lines_with_numbers(d.hunks)]

\* set(want_numbers)
ToSet(nums) == {nums[i] : i \in 1..Len(nums)}

\* sorted(want_set)
RECURSIVE Sorted(_)
Sorted(S) ==
    IF S = {} THEN <<>>
    ELSE LET least == CHOOSE x \in S : \A y \in S : x <= y
         IN  <<least>> \o Sorted(S \ {least})

\* ---------------------------------------------------- parse_number_tokens

DigitValue(c) == CHOOSE d \in 0..9 : DigitChar(d) = c

\* \d
IsDigit(c) == \E d \in 0..9 : DigitChar(d) = c

\* int(t) of a string of digits
RECURSIVE ParseDecimal(_)
ParseDecimal(digits) ==
    IF digits = <<>> THEN 0
    ELSE 10 * ParseDecimal(SubSeq(digits, 1, Len(digits) - 1)) + DigitValue(digits[Len(digits)])

\* token_str.split(","), from position i on, cur being the piece begun
RECURSIVE SplitOnComma(_, _, _)
SplitOnComma(token_str, i, cur) ==
    IF i > Len(token_str) THEN <<cur>>
    ELSE IF token_str[i] = "," THEN <<cur>> \o SplitOnComma(token_str, i + 1, <<>>)
    ELSE SplitOnComma(token_str, i + 1, Append(cur, token_str[i]))

\* tok.strip()
RECURSIVE Strip(_)
Strip(tok) ==
    IF tok # <<>> /\ Head(tok) = " " THEN Strip(Tail(tok))
    ELSE IF tok # <<>> /\ tok[Len(tok)] = " " THEN Strip(SubSeq(tok, 1, Len(tok) - 1))
    ELSE tok

\* re.fullmatch(r"\d{4}", t)
FourDigits(t) == Len(t) = 4 /\ \A k \in 1..4 : IsDigit(t[k])

\* re.fullmatch(r"(\d{4})-(\d{4})", t)
FourDigitRange(t) ==
    /\ Len(t) = 9
    /\ t[5] = "-"
    /\ FourDigits(SubSeq(t, 1, 4))
    /\ FourDigits(SubSeq(t, 6, 9))

\* A variant that leaves the upper end out.
RangeInclusive_HalfOpen(a, b) == [i \in 1..(b - a) |-> a + i - 1]

\* range(a, b + 1)
RangeInclusive(a, b) == [i \in 1..(b - a + 1) |-> a + i - 1]

Rejected(err) == [ok |-> FALSE, nums |-> <<>>, err |-> err]

\* The for-loop over the pieces, from piece i on.
RECURSIVE ParseFrom(_, _, _)
ParseFrom(toks, i, nums) ==
    IF i > Len(toks) THEN [ok |-> TRUE, nums |-> nums, err |-> "none"]
    ELSE LET t == Strip(toks[i])
         IN  IF t = <<>> THEN ParseFrom(toks, i + 1, nums)
             ELSE IF FourDigits(t) THEN ParseFrom(toks, i + 1, Append(nums, ParseDecimal(t)))
             ELSE IF FourDigitRange(t)
             THEN LET a == ParseDecimal(SubSeq(t, 1, 4))
                      b == ParseDecimal(SubSeq(t, 6, 9))
                  IN  IF a > b THEN Rejected("invalid range")
                      ELSE ParseFrom(toks, i + 1, nums \o RangeInclusive(a, b))
             ELSE Rejected("invalid token")

\* parse_number_tokens: the returned list, or the raised ValueError.
parse_number_tokens(token_str) == ParseFrom(SplitOnComma(token_str, 1, <<>>), 1, <<>>)

\* ----------------------------------------------------- parse_unified_diff

\* An optional value: None, or the value in a tuple of one.
None == <<>>

Some(x) == <<x>>

\* s.startswith(prefix)
StartsWith(s, prefix) == Len(s) >= Len(prefix) /\ SubSeq(s, 1, Len(prefix)) = prefix

\* s[i - 1:]
From(s, i) == SubSeq(s, i, Len(s))

\* The end of the longest run of digits of s that begins at i (i - 1 when
\* s holds no digit there).
RECURSIVE DigitsEnd(_, _)
DigitsEnd(s, i) == IF i <= Len(s) /\ IsDigit(s[i]) THEN DigitsEnd(s, i + 1) ELSE i - 1

\* (\d+),?(\d*) matched at position i of s: the two groups and the position
\* after them.
SideMatch(s, i) ==
    LET e1 == DigitsEnd(s, i)
        c == IF e1 + 1 <= Len(s) /\ s[e1 + 1] = "," THEN e1 + 2 ELSE e1 + 1
        e2 == DigitsEnd(s, c)
    IN  [ok |-> e1 >= i, start |-> SubSeq(s, i, e1), length |-> SubSeq(s, c, e2), next |-> e2 + 1]

NoMatch == [matched |-> FALSE, groups |-> <<>>]

\* HUNK_RE.match(raw), HUNK_RE being ^@@ -(\d+),?(\d*) \+(\d+),?(\d*) @@
HUNK_RE(raw) ==
    IF ~StartsWith(raw, <<"@", "@", " ", "-">>) THEN NoMatch
    ELSE LET o == SideMatch(raw, 5)
         IN  IF ~o.ok \/ ~StartsWith(From(raw, o.next), <<" ", "+">>) THEN NoMatch
             ELSE LET n == SideMatch(raw, o.next + 2)
                  IN  IF ~n.ok \/ ~StartsWith(From(raw, n.next), <<" ", "@", "@">>) THEN NoMatch
                      ELSE [matched |-> TRUE,
                            groups |-> <<o.start, o.length, n.start, n.length>>]

\* A variant that takes an omitted length for 0.
IntOr_Zero(group, default) == ParseDecimal(IF group = <<>> THEN <<"0">> ELSE group)

\* int(group or default)
IntOr(group, default) == ParseDecimal(IF group = <<>> THEN default ELSE group)

\* pat occurs in s at position i
OccursAt(s, pat, i) == i + Len(pat) - 1 <= Len(s) /\ SubSeq(s, i, i + Len(pat) - 1) = pat

\* re.search(r' and b/(.+) differ$', raw): the group, or None.
BinaryPath(raw) ==
    LET head == <<" ", "a", "n", "d", " ", "b", "/">>
        tail == <<" ", "d", "i", "f", "f", "e", "r">>
        starts == {i \in 1..Len(raw) :
                      OccursAt(raw, head, i) /\ i + Len(head) <= Len(raw) - Len(tail)}
    IN  IF OccursAt(raw, tail, Len(raw) - Len(tail) + 1) /\ starts # {}
        THEN Some(SubSeq(raw, (CHOOSE i \in starts : \A j \in starts : i <= j) + Len(head),
                         Len(raw) - Len(tail)))
        ELSE None

\* d.setdefault(key, value)
SetDefault(d, key, value) == IF key \in DOMAIN d THEN d ELSE d @@ (key :> value)

\* The locals of parse_unified_diff: the two dictionaries, the current path,
\* the hunk that is open (the path and the position of the HunkRaw in the
\* list of the path) and the two paths of the file header.
ParserStart ==
    [files_hunks |-> <<>>, binaries |-> <<>>, cur_path |-> None, cur_hunk |-> None,
     a_path |-> None, b_path |-> None]

\* raw.startswith("diff --git ")
LineDiffGit(st) ==
    [st EXCEPT !.a_path = None, !.b_path = None, !.cur_path = None, !.cur_hunk = None]

\* raw.startswith("--- ")
LineOldFile(st, raw) == [st EXCEPT !.a_path = Some(Strip(From(raw, 5)))]

\* raw.startswith("+++ ")
LineNewFile(st, raw) ==
    LET b_path == Strip(From(raw, 5))
        cur_path ==
            IF StartsWith(b_path, <<"b", "/">>) THEN From(b_path, 3)
            ELSE IF /\ b_path = <<"/", "d", "e", "v", "/", "n", "u", "l", "l">>
                    /\ st.a_path # None
                    /\ StartsWith(st.a_path[1], <<"a", "/">>)
            THEN From(st.a_path[1], 3)
            ELSE b_path
    IN  [st EXCEPT !.b_path = Some(b_path),
                   !.cur_path = Some(cur_path),
                   !.files_hunks = SetDefault(@, cur_path, <<>>),
                   !.binaries = SetDefault(@, cur_path, FALSE)]

\* raw.startswith("Binary files ")
LineBinary(st, raw) ==
    LET m == BinaryPath(raw)
    IN  IF m = None THEN st
        ELSE [st EXCEPT !.cur_path = m,
                        !.binaries = [key \in DOMAIN @ \cup {m[1]} |-> IF key = m[1] THEN TRUE ELSE @[key]],
                        !.files_hunks = SetDefault(@, m[1], <<>>)]

\* m and cur_path: the header of a hunk under a path that is not empty
LineHeader(st, groups) ==
    LET path == st.cur_path[1]
        cur_hunk == HunkRaw(path, IntOr(groups[1], <<"0">>), IntOr(groups[2], <<"1">>),
                            IntOr(groups[3], <<"0">>), IntOr(groups[4], <<"1">>), <<>>)
    IN  [st EXCEPT !.files_hunks[path] = Append(@, cur_hunk),
                   !.cur_hunk = Some([path |-> path, at |-> Len(st.files_hunks[path]) + 1])]

NoNewlineMarker == <<"\\", " ", "N", "o", " ", "n", "e", "w", "l", "i", "n", "e", " ", "a", "t", " ", "e", "n", "d", " ", "o", "f", " ", "f", "i", "l", "e">>

\* The last statement of the loop: a line of the open hunk.
LineOfHunk(st, raw) ==
    IF st.cur_hunk = None \/ raw = <<>> THEN st
    ELSE IF StartsWith(raw, NoNewlineMarker) THEN st
    ELSE IF raw[1] \in {" ", "+", "-"}
    THEN LET h == st.cur_hunk[1]
         IN  [st EXCEPT !.files_hunks[h.path][h.at].all_lines = Append(@, raw)]
    ELSE st

\* One iteration of the for-loop over diff_text.splitlines().
ParseRawLine(st, raw) ==
    IF StartsWith(raw, <<"d", "i", "f", "f", " ", "-", "-", "g", "i", "t", " ">>) THEN LineDiffGit(st)
    ELSE IF StartsWith(raw, <<"-", "-", "-", " ">>) THEN LineOldFile(st, raw)
    ELSE IF StartsWith(raw, <<"+", "+", "+", " ">>) THEN LineNewFile(st, raw)
    ELSE IF StartsWith(raw, <<"B", "i", "n", "a", "r", "y", " ", "f", "i", "l", "e", "s", " ">>) THEN LineBinary(st, raw)
    ELSE IF HUNK_RE(raw).matched /\ st.cur_path # None /\ st.cur_path[1] # <<>>
    THEN LineHeader(st, HUNK_RE(raw).groups)
    ELSE LineOfHunk(st, raw)

\* ------------------------------------------------------------ list_files

\* MAX_DIFF_BYTES = 10 * 1024
MAX_DIFF_BYTES == 10 * 1024

\* A text is a tuple of characters of one byte each, but for the character
\* "W", which stands for a run of RunBytes one-byte characters: with it a
\* line of a few characters weighs as much as the limit on a file's diff.
RunBytes == MAX_DIFF_BYTES - 2

\* len(ln.encode('utf-8'))
RECURSIVE EncodedLen(_)
EncodedLen(text) ==
    IF text = <<>> THEN 0
    ELSE (IF Head(text) = "W" THEN RunBytes ELSE 1) + EncodedLen(Tail(text))

\* sum(len(line.encode('utf-8')) for line in lines)
RECURSIVE SumEncodedLen(_)
SumEncodedLen(lines) ==
    IF lines = <<>> THEN 0 ELSE EncodedLen(Head(lines)) + SumEncodedLen(Tail(lines))

\* calculate_diff_size: the bytes of the lines of all the hunks, the sign
\* character of each line included.
RECURSIVE calculate_diff_size(_)
calculate_diff_size(hs) ==
    IF hs = <<>> THEN 0
    ELSE SumEncodedLen(Head(hs).all_lines) + calculate_diff_size(Tail(hs))

\* What get_diff_with_untracked and parse_unified_diff give list_files about
\* one path: a key of files_hunks with its hunks, its flag in binaries, and
\* the status that membership in untracked_set and deleted_set gives it.
ChangedFile(path, binary, status, hs) ==
    [path |-> path, binary |-> binary, status |-> status, hunks |-> hs]

\* The number of decimal digits of n >= 0.
Digits(n) == Len(Decimal(n))

\* len(json.dumps({"file_index": i})): 15 characters before the number and
\* the closing brace after it, a minus sign for a negative number.
JsonLen(i) == 16 + (IF i < 0 THEN 1 + Digits(0 - i) ELSE Digits(i))

\* The length of base64 text without padding for n bytes: four characters
\* per three bytes, two or three for the one or two bytes left over.
B64Len(n) == 4 * (n \div 3) + (IF n % 3 = 0 THEN 0 ELSE (n % 3) + 1)

\* A page token is base64 text: the model keeps its length and the JSON
\* value it decodes to when it decodes: kind "index" for an object with
\* an integer as file_index, "no_key" for an object without that key,
\* "array" for a JSON value that is not an object, "garbage" for text that
\* is not JSON.
Token(chars, kind, value) == [chars |-> chars, kind |-> kind, value |-> value]

\* base64.urlsafe_b64encode(json.dumps({"file_index": i}).encode()).decode().rstrip("=")
EncodeToken(i) == Token(B64Len(JsonLen(i)), "index", i)

\* The try block of list_files: start_idx, or that the call raises. The
\* text is padded to a multiple of four; text one character longer than a
\* multiple of four is no base64 whatever the padding, and that error, like
\* the errors of JSON text and of a missing key, is caught and gives 0. A
\* JSON value without the method get raises AttributeError, which is not
\* caught.
DecodeToken(page_token) ==
    IF page_token = None THEN [raised |-> FALSE, start_idx |-> 0]
    ELSE LET tok == page_token[1]
             padding == tok.chars % 4
             padded == IF padding # 0 THEN tok.chars + (4 - padding) ELSE tok.chars
         IN  IF padded - tok.chars > 2 \/ tok.kind = "garbage"
             THEN [raised |-> FALSE, start_idx |-> 0]
             ELSE IF tok.kind = "array" THEN [raised |-> TRUE, start_idx |-> 0]
             ELSE IF tok.kind = "no_key" THEN [raised |-> FALSE, start_idx |-> 0]
             ELSE [raised |-> FALSE, start_idx |-> tok.value]

\* The entry of a file in the page.
FileEntry(f, truncated, lines) ==
    [path |-> f.path, binary |-> f.binary, status |-> f.status, truncated |-> truncated,
     lines |-> lines]

\* F(v), with the value v worked out once however often F refers to it.
Once(v, F(_)) == CHOOSE r \in {F(x) : x \in {v}} : TRUE

\* The locals of the while-loop of list_files.
ListState(i, out_files, truncated_count, cumulative_bytes, raised) ==
    [i |-> i, out_files |-> out_files, truncated_count |-> truncated_count,
     cumulative_bytes |-> cumulative_bytes, raised |-> raised]

\* diff_size > MAX_DIFF_BYTES
TooLarge_AtLimit(f) == calculate_diff_size(f.hunks) >= MAX_DIFF_BYTES

TooLarge(f) == calculate_diff_size(f.hunks) > MAX_DIFF_BYTES

\* The body of the while-loop for the file f: a binary file and a file
\* whose diff is too large are entered without lines and without bytes.
ListOne(f, s) ==
    IF f.binary
    THEN [s EXCEPT !.out_files = Append(@, FileEntry(f, FALSE, <<>>)), !.i = @ + 1]
    ELSE IF TooLarge(f)
    THEN [s EXCEPT !.out_files = Append(@, FileEntry(f, TRUE, <<>>)),
                   !.truncated_count = @ + 1, !.i = @ + 1]
    ELSE LET lines == flat_file_lines_with_numbers(f.hunks)
         IN  [s EXCEPT !.out_files = Append(@, FileEntry(f, FALSE, lines)),
                       !.cumulative_bytes = @ + SumEncodedLen(lines), !.i = @ + 1]

\* The while-loop of list_files over all_paths, whose indices count from 0:
\* all_paths[i] with a negative i counts from the end of the list and
\* raises IndexError before its beginning.
RECURSIVE ListLoop(_, _, _, _)
ListLoop(changed, s, page_size_files, page_size_bytes) ==
    IF ~(s.i < Len(changed)) THEN s
    ELSE IF Len(s.out_files) >= page_size_files THEN s
    ELSE IF s.cumulative_bytes > 0 /\ s.cumulative_bytes >= page_size_bytes THEN s
    ELSE IF s.i < 0 - Len(changed) THEN [s EXCEPT !.raised = TRUE]
    ELSE Once(changed[(IF s.i < 0 THEN Len(changed) + s.i ELSE s.i) + 1],
              LAMBDA f : Once(ListOne(f, s),
                              LAMBDA t : ListLoop(changed, t, page_size_files, page_size_bytes)))

\* sum(len(f.get("lines", [])) for f in out_files if not f.get("binary"))
RECURSIVE CountLines(_)
CountLines(out_files) ==
    IF out_files = <<>> THEN 0
    ELSE (IF Head(out_files).binary THEN 0 ELSE Len(Head(out_files).lines))
             + CountLines(Tail(out_files))

\* A call that raised returns nothing.
ListRaised ==
    [raised |-> TRUE, page_token_next |-> None, files |-> <<>>,
     stats |-> [files |-> 0, lines |-> 0, truncated_files |-> 0, page_bytes |-> 0]]

\* page_token_next: the index of the first file not looked at.
NextToken_SkipsOne(i, n) == IF i < n THEN Some(EncodeToken(i + 1)) ELSE None

NextToken(i, n) == IF i < n THEN Some(EncodeToken(i)) ELSE None

\* The paths of the model, in ascending order.
PathNames == <<"f1", "f2", "f3">>

\* p < q on paths.
PathLess(p, q) ==
    \E i, j \in 1..Len(PathNames) : i < j /\ PathNames[i] = p /\ PathNames[j] = q

RECURSIVE InsertByPath(_, _)
InsertByPath(f, fs) ==
    IF fs = <<>> THEN <<f>>
    ELSE IF PathLess(f.path, Head(fs).path) THEN <<f>> \o fs
    ELSE <<Head(fs)>> \o InsertByPath(f, Tail(fs))

\* sorted(files_hunks.keys()), each path with what the dictionaries hold
\* for it: the keys of a dictionary are distinct.
RECURSIVE SortByPath(_)
SortByPath(fs) ==
    IF fs = <<>> THEN <<>> ELSE InsertByPath(fs[Len(fs)], SortByPath(SubSeq(fs, 1, Len(fs) - 1)))

\* list_files, given files_hunks with the paths in the order the diff
\* names them.
list_files(files_hunks, page_token, page_size_files, page_size_bytes) ==
    Once(SortByPath(files_hunks), LAMBDA changed :
    Once(DecodeToken(page_token), LAMBDA d :
    Once(ListLoop(changed, ListState(d.start_idx, <<>>, 0, 0, FALSE),
                  page_size_files, page_size_bytes), LAMBDA s :
        IF d.raised \/ s.raised THEN ListRaised
        ELSE [raised |-> FALSE,
              page_token_next |-> NextToken(s.i, Len(changed)),
              files |-> s.out_files,
              stats |-> [files |-> Len(s.out_files), lines |-> CountLines(s.out_files),
                         truncated_files |-> s.truncated_count,
                         page_bytes |-> s.cumulative_bytes]])))

\* ------------------------------------------------------------------ state

VARIABLES
    old_lines,      \* the patcher's old_lines argument
    hunks,          \* the patcher's hunks argument
    want_numbers,   \* the patcher's want_numbers argument
    ps,             \* the patcher's locals (a PatchState)
    origin,         \* where the arguments come from: kind "free" (any hunk),
                    \* "diff" (hunks are the diff of old_lines against
                    \* origin.new at width origin.unified) or "stale" (the
                    \* diff of another original)
    index,          \* the index entry of the path
    worktree,       \* the file of the path in the working tree
    pc,             \* per caller: where its apply_one_file call stands
    loc,            \* per caller: the locals of its apply_one_file call
    result,         \* per caller: what its last call returned
    index_before,   \* per caller: the index entry when its call began, or
                    \* as another writer has left it since
    disturbed,      \* per caller: somebody else wrote the index since then
    sel,            \* the apply command: its argument, the numbers parsed, the
                    \* content computed
    parser,         \* the locals of parse_unified_diff, the line read last and
                    \* the count of the lines read
    history,        \* unstack: the snapshots of the file along the original
                    \* commits, the parent's first, and the context width of
                    \* the commits' own patches
    refs,           \* unstack: per branch name, the content its ref holds, or
                    \* None
    branch,         \* unstack: the branch under evaluation
    outcomes,       \* unstack: the outcomes of the branches evaluated so far
    lister,         \* list_files and the other read-only calls: the changed
                    \* files of the diff, the page sizes, the token of the
                    \* next call, the pages returned so far and the answers
                    \* given since the index or the working tree last changed
    last            \* per caller: its previous call, while nothing else has
                    \* changed the working tree or the index since; `again`
                    \* tells that this call repeated, with the same
                    \* identifiers, a call that had staged something, and
                    \* `prev_unstaged` what that call had reported

patchVars == <<old_lines, hunks, want_numbers, ps, origin>>

repoVars == <<index, worktree, pc, loc, result, index_before, disturbed, last>>

\* The variables of the other entry points.
unstackVars == <<history, refs, branch, outcomes>>

restVars == <<parser, unstackVars, lister>>

vars == <<old_lines, hunks, want_numbers, ps, origin,
          index, worktree, pc, loc, result, index_before, disturbed, last, sel, parser,
          history, refs, branch, outcomes, lister>>

\* parse_unified_diff has not read a line.
ParserIdle == parser = [st |-> ParserStart, raw |-> None, n |-> 0]

\* No read-only call has been made.
NoListing ==
    [files_hunks |-> <<>>, page_size_files |-> 0, page_size_bytes |-> 0, started |-> "no",
     asked |-> None, page |-> None, seen |-> <<>>, answers |-> <<>>]

ListerIdle == lister = NoListing

\* The names of the branches of a request, in the order of evaluation.
BranchNames == <<"x", "y">>

\* No branch is under evaluation.
NoBranch ==
    [name |-> "none", commits |-> <<>>, state |-> "NONE", content |-> <<>>, next |-> 1,
     applied |-> <<>>]

\* No unstack request has been made.
UnstackIdle ==
    /\ history = [snapshots |-> << <<>> >>, unified |-> 0]
    /\ refs = [name \in {BranchNames[k] : k \in 1..Len(BranchNames)} |-> None]
    /\ branch = NoBranch
    /\ outcomes = <<>>

\* ------------------------------------------------------- apply_one_file

\* Longest file of the model, in lines.
MaxLen == 2
\* Largest change identifier a caller asks for.
MaxId == 2
\* Most identifiers in one request.
MaxNums == 2

Callers == {1, 2}

FileTexts == {<<"a">>, <<"b">>, <<"c">>}

\* The files of the model hold no line twice, so that the shortest edit
\* script between two of them is the one git finds.
NoRepeat(q) == \A i, j \in 1..Len(q) : i # j => q[i] # q[j]

TextContents ==
    {[binary |-> FALSE, lines |-> q, nl |-> e] :
        q \in {r \in SeqsUpTo(FileTexts, MaxLen) : NoRepeat(r)}, e \in BOOLEAN}
    \ {[binary |-> FALSE, lines |-> <<>>, nl |-> TRUE]}

Contents == TextContents \cup {BinaryContent}

NoLocals ==
    [want_set |-> {}, hunks |-> <<>>, old_lines |-> <<>>, had_trailing_nl |-> FALSE,
     new_lines |-> <<>>, mode |-> "none"]

NoResult ==
    [status |-> "none", reason |-> "none", skipped |-> <<>>, files |-> 0,
     changes_applied |-> 0, changes_skipped |-> 0, unstaged_lines |-> 0]

\* {"applied": [], "skipped": [{..., "reason": reason} for n in sorted(want_set)], ...}
Skipped(want_set, reason) ==
    [status |-> "skipped", reason |-> reason, skipped |-> Sorted(want_set), files |-> 0,
     changes_applied |-> 0, changes_skipped |-> Cardinality(want_set), unstaged_lines |-> 0]

\* {"applied": [{"count": len(want_set), ..., "unstaged_lines": n}], "skipped": [], ...}
Applied(want_set, unstaged_lines) ==
    [status |-> "applied", reason |-> "none", skipped |-> <<>>, files |-> 1,
     changes_applied |-> Cardinality(want_set), changes_skipped |-> 0,
     unstaged_lines |-> unstaged_lines]

NoLast ==
    [valid |-> FALSE, want_set |-> {}, staged |-> FALSE, unstaged_lines |-> 0,
     again |-> FALSE, prev_unstaged |-> 0]

\* What a caller remembers of the call that returns now.
Remember(p, valid, staged, unstaged_lines) ==
    IF disturbed[p] THEN NoLast
    ELSE [valid |-> valid,
          want_set |-> IF valid THEN loc[p].want_set ELSE {},
          staged |-> staged,
          unstaged_lines |-> unstaged_lines,
          again |-> last[p].valid /\ last[p].staged,
          prev_unstaged |-> IF last[p].valid /\ last[p].staged
                            THEN last[p].unstaged_lines ELSE 0]

NoCommand ==
    [phase |-> "idle", request |-> <<>>, numbers |-> <<>>, nums |-> <<>>,
     ok |-> FALSE, new_lines |-> <<>>]

RepoIdle ==
    /\ index = NoEntry
    /\ worktree = NoFile
    /\ pc = [p \in Callers |-> "idle"]
    /\ loc = [p \in Callers |-> NoLocals]
    /\ result = [p \in Callers |-> NoResult]
    /\ index_before = [p \in Callers |-> NoEntry]
    /\ disturbed = [p \in Callers |-> FALSE]
    /\ last = [p \in Callers |-> NoLast]

PatchIdle ==
    /\ old_lines = <<>>
    /\ hunks = <<>>
    /\ want_numbers = {}
    /\ ps = PatchState("done", 1, 1, 1, 1, <<>>, "none")
    /\ origin = [kind |-> "free", new |-> <<>>, unified |-> 0]

\* At first the path is untracked, executable or not, or tracked as a
\* regular file; an executable file comes to be tracked by being staged.
InitRepo ==
    /\ \/ /\ index = NoEntry
          /\ worktree \in [present : {TRUE}, content : Contents, exec : BOOLEAN]
       \/ /\ index \in [present : {TRUE}, content : Contents, mode : {"100644"}]
          /\ \/ worktree = NoFile
             \/ worktree \in [present : {TRUE}, content : Contents, exec : {FALSE}]
    /\ pc = [p \in Callers |-> "idle"]
    /\ loc = [p \in Callers |-> NoLocals]
    /\ result = [p \in Callers |-> NoResult]
    /\ index_before = [p \in Callers |-> index]
    /\ disturbed = [p \in Callers |-> FALSE]
    /\ last = [p \in Callers |-> NoLast]
    /\ sel = NoCommand
    /\ PatchIdle
    /\ ParserIdle
    /\ ListerIdle
    /\ UnstackIdle

\* apply_one_file(path, want_numbers) begins: want_set = set(want_numbers).
\* (The model follows the calls made while the entry holds no line twice.)
Invoke(p, nums) ==
    /\ pc[p] = "idle"
    /\ index.present => NoRepeat(index.content.lines)
    /\ pc' = [pc EXCEPT ![p] = "diff"]
    /\ loc' = [loc EXCEPT ![p] = [NoLocals EXCEPT !.want_set = ToSet(nums)]]
    /\ result' = [result EXCEPT ![p] = NoResult]
    /\ index_before' = [index_before EXCEPT ![p] = index]
    /\ disturbed' = [disturbed EXCEPT ![p] = FALSE]
    /\ last' = [last EXCEPT ![p] =
                   IF last[p].valid /\ last[p].want_set = ToSet(nums)
                   THEN [last[p] EXCEPT !.again = FALSE, !.prev_unstaged = 0]
                   ELSE NoLast]
    /\ UNCHANGED <<index, worktree>>
    /\ UNCHANGED <<patchVars, sel, restVars>>

\* The call returns r without having written the index.
ReturnSkipped(p, r) ==
    /\ pc' = [pc EXCEPT ![p] = "idle"]
    /\ loc' = [loc EXCEPT ![p] = NoLocals]
    /\ result' = [result EXCEPT ![p] = r]
    /\ last' = [last EXCEPT ![p] = Remember(p, FALSE, FALSE, 0)]
    /\ UNCHANGED <<index, worktree, index_before, disturbed>>
    /\ UNCHANGED <<patchVars, sel, restVars>>

\* A variant that reports a binary path as drift.
DiffBinary_ReportsDrift(p) ==
    /\ pc[p] = "diff"
    /\ GitDiff("f", index, worktree, UNIFIED_APPLY).binary
    /\ ReturnSkipped(p, Skipped(loc[p].want_set, "drift"))

\* The diff of the path is computed and parsed; the path is binary.
DiffBinary(p) ==
    /\ pc[p] = "diff"
    /\ GitDiff("f", index, worktree, UNIFIED_APPLY).binary
    /\ ReturnSkipped(p, Skipped(loc[p].want_set, "binary"))

\* A variant that reports an empty diff as a success that staged nothing.
DiffNothing_ReportsApplied(p) ==
    /\ pc[p] = "diff"
    /\ LET d == GitDiff("f", index, worktree, UNIFIED_APPLY)
       IN  ~d.binary /\ d.hunks = <<>>
    /\ pc' = [pc EXCEPT ![p] = "idle"]
    /\ loc' = [loc EXCEPT ![p] = NoLocals]
    /\ result' = [result EXCEPT ![p] = Applied(loc[p].want_set, 0)]
    /\ last' = [last EXCEPT ![p] = Remember(p, TRUE, FALSE, 0)]
    /\ UNCHANGED <<index, worktree, index_before, disturbed>>
    /\ UNCHANGED <<patchVars, sel, restVars>>

\* The diff of the path is computed and parsed; it holds no hunk.
DiffNothing(p) ==
    /\ pc[p] = "diff"
    /\ LET d == GitDiff("f", index, worktree, UNIFIED_APPLY)
       IN  ~d.binary /\ d.hunks = <<>>
    /\ ReturnSkipped(p, Skipped(loc[p].want_set, "drift"))

\* The diff of the path is computed and parsed; it holds hunks.
DiffHunks(p) ==
    /\ pc[p] = "diff"
    /\ LET d == GitDiff("f", index, worktree, UNIFIED_APPLY)
       IN  /\ ~d.binary /\ d.hunks # <<>>
           /\ loc' = [loc EXCEPT ![p].hunks = d.hunks]
    /\ pc' = [pc EXCEPT ![p] = "read"]
    /\ UNCHANGED <<index, worktree, result, index_before, disturbed, last>>
    /\ UNCHANGED <<patchVars, sel, restVars>>

\* What the patcher makes of the index content read now.
PatchedNow(p) ==
    LET r == git_read_index_text(index)
    IN  apply_selected_changes_to_old(r.lines, loc[p].hunks, loc[p].want_set)

\* A variant that stages what it has although the patcher raised.
ReadIndexDrift_StagesAnyway(p) ==
    /\ pc[p] = "read"
    /\ ~PatchedNow(p).ok
    /\ LET r == git_read_index_text(index)
       IN  loc' = [loc EXCEPT ![p].old_lines = r.lines,
                              ![p].had_trailing_nl = r.nl,
                              ![p].new_lines = PatchedNow(p).lines]
    /\ pc' = [pc EXCEPT ![p] = "mode"]
    /\ UNCHANGED <<index, worktree, result, index_before, disturbed, last>>
    /\ UNCHANGED <<patchVars, sel, restVars>>

\* The index content is read and the patcher raises.
ReadIndexDrift(p) ==
    /\ pc[p] = "read"
    /\ ~PatchedNow(p).ok
    /\ ReturnSkipped(p, Skipped(loc[p].want_set, "drift"))

\* The index content is read and the patcher returns the new lines.
ReadIndexPatched(p) ==
    /\ pc[p] = "read"
    /\ PatchedNow(p).ok
    /\ LET r == git_read_index_text(index)
       IN  loc' = [loc EXCEPT ![p].old_lines = r.lines,
                              ![p].had_trailing_nl = r.nl,
                              ![p].new_lines = PatchedNow(p).lines]
    /\ pc' = [pc EXCEPT ![p] = "mode"]
    /\ UNCHANGED <<index, worktree, result, index_before, disturbed, last>>
    /\ UNCHANGED <<patchVars, sel, restVars>>

\* mode = detect_mode_for_path(path)
DetectMode(p) ==
    /\ pc[p] = "mode"
    /\ loc' = [loc EXCEPT ![p].mode = detect_mode_for_path(index, worktree, "100644")]
    /\ pc' = [pc EXCEPT ![p] = "write"]
    /\ UNCHANGED <<index, worktree, result, index_before, disturbed, last>>
    /\ UNCHANGED <<patchVars, sel, restVars>>

\* A variant that stages the content of the working file, as `git add` does.
WriteIndex_StagesFile(p) ==
    /\ pc[p] = "write"
    /\ index' = update_index_with_content(loc[p].mode, worktree.content)
    /\ pc' = [pc EXCEPT ![p] = "report"]
    /\ result' = [q \in Callers |-> IF q # p /\ pc[q] = "idle" THEN NoResult ELSE result[q]]
    /\ index_before' = [q \in Callers |-> IF q # p THEN index' ELSE index_before[q]]
    /\ disturbed' = [q \in Callers |-> IF q = p THEN disturbed[q] ELSE pc[q] # "idle"]
    /\ last' = [q \in Callers |-> IF q = p THEN last[q] ELSE NoLast]
    /\ UNCHANGED <<worktree, loc>>
    /\ UNCHANGED <<patchVars, sel, restVars>>

\* update_index_with_content(path, mode, new_text)
WriteIndex(p) ==
    /\ pc[p] = "write"
    /\ index' = update_index_with_content(
                    loc[p].mode, JoinedContent(loc[p].new_lines, loc[p].had_trailing_nl))
    /\ pc' = [pc EXCEPT ![p] = "report"]
    /\ result' = [q \in Callers |-> IF q # p /\ pc[q] = "idle" THEN NoResult ELSE result[q]]
    /\ index_before' = [q \in Callers |-> IF q # p THEN index' ELSE index_before[q]]
    /\ disturbed' = [q \in Callers |-> IF q = p THEN disturbed[q] ELSE pc[q] # "idle"]
    /\ last' = [q \in Callers |-> IF q = p THEN last[q] ELSE NoLast]
    /\ UNCHANGED <<worktree, loc>>
    /\ UNCHANGED <<patchVars, sel, restVars>>

\* file_info = current_file_lines(path), the count of the numbered lines,
\* and the return.
Report(p) ==
    /\ pc[p] = "report"
    /\ LET file_info == current_file_lines("f", index, worktree, UNIFIED_APPLY)
           unstaged_count ==
               Cardinality({i \in 1..Len(file_info.lines) : StartsWithNumber(file_info.lines[i])})
       IN  /\ result' = [result EXCEPT ![p] = Applied(loc[p].want_set, unstaged_count)]
           /\ last' = [last EXCEPT ![p] =
                          Remember(p, TRUE,
                                   git_read_index_text(index).lines
                                       # git_read_index_text(index_before[p]).lines,
                                   unstaged_count)]
    /\ pc' = [pc EXCEPT ![p] = "idle"]
    /\ loc' = [loc EXCEPT ![p] = NoLocals]
    /\ UNCHANGED <<index, worktree, index_before, disturbed>>
    /\ UNCHANGED <<patchVars, sel, restVars>>

\* What one edit makes of a text: a line more or a line less at its end, or
\* its last newline given or taken.
EditedOnce(c) ==
    {d \in TextContents :
        \/ d.lines = c.lines /\ d.nl # c.nl
        \/ d.nl = c.nl /\ \E t \in FileTexts : d.lines = Append(c.lines, t)
        \/ d.nl = c.nl /\ c.lines # <<>> /\ d.lines = SubSeq(c.lines, 1, Len(c.lines) - 1)}

\* What a new file holds: at most one line, or binary data.
CreatedContents == {d \in Contents : d.binary \/ Len(d.lines) <= 1}

\* The user edits, creates or deletes the file after a call (in the model,
\* only while the entry holds one of the model's contents, which keeps the
\* staged content from growing without bound).
WorkTreeEdit ==
    /\ \A p \in Callers : pc[p] = "idle"
    /\ \E p \in Callers : result[p].status # "none"
    /\ index.present => index.content \in Contents
    /\ \/ worktree' = NoFile
       \/ /\ ~worktree.present
          /\ worktree' \in [present : {TRUE}, content : CreatedContents, exec : {worktree.exec}]
       \/ /\ worktree.present /\ ~worktree.content.binary
          /\ worktree' \in [present : {TRUE}, content : EditedOnce(worktree.content),
                             exec : {worktree.exec}]
    /\ worktree' # worktree
    /\ index.present \/ worktree'.present
    /\ result' = [p \in Callers |-> NoResult]
    /\ index_before' = [p \in Callers |-> index]
    /\ disturbed' = [p \in Callers |-> FALSE]
    /\ last' = [p \in Callers |-> NoLast]
    /\ UNCHANGED <<index, pc, loc>>
    /\ UNCHANGED <<patchVars, sel, restVars>>

\* Another process runs `git add <path>` at any moment: the entry takes the
\* content of the working file. (A caller that is not in a call forgets its
\* last response: what the model keeps of a finished call is kept only until
\* the repository changes under it.)
ExternalStage ==
    /\ worktree.present
    /\ index' = [present |-> TRUE, content |-> worktree.content,
                 mode |-> detect_mode_for_path(index, worktree, "100644")]
    /\ index' # index
    /\ result' = [p \in Callers |-> IF pc[p] = "idle" THEN NoResult ELSE result[p]]
    /\ index_before' = [p \in Callers |-> index']
    /\ disturbed' = [p \in Callers |-> pc[p] # "idle"]
    /\ last' = [p \in Callers |-> NoLast]
    /\ UNCHANGED <<worktree, pc, loc>>
    /\ UNCHANGED <<patchVars, sel, restVars>>

\* The lists a caller passes: up to MaxNums identifiers, in increasing order
\* (the lists in any order and with repeats are those of the apply command
\* below).
Requests == {Sorted(S) : S \in {T \in SUBSET (1..MaxId) : Cardinality(T) <= MaxNums}}

\* One caller at a time, as section 5 of the specification requires.
Next ==
    \/ \E nums \in Requests : Invoke(1, nums)
    \/ DiffBinary(1)
    \/ DiffNothing(1)
    \/ DiffHunks(1)
    \/ ReadIndexDrift(1)
    \/ ReadIndexPatched(1)
    \/ DetectMode(1)
    \/ WriteIndex(1)
    \/ Report(1)
    \/ WorkTreeEdit
    \/ ExternalStage

Spec == InitRepo /\ [][Next]_vars

\* ------------------------------------------- claims on apply_one_file

Returned(p) == pc[p] = "idle" /\ result[p].status # "none"

\* C4: a call that ends skipped (drift, binary, nothing to apply) leaves the
\* entry of the path, content and mode, as it was before the call or as the
\* other writers have left it; and a call that is about to write the index
\* holds the whole content the patcher computed, without error, from the
\* index content it read.
C4_AtomicityOnFailure ==
    \A p \in Callers :
        /\ (Returned(p) /\ result[p].status = "skipped") => index = index_before[p]
        /\ pc[p] \in {"mode", "write"} =>
               LET r == apply_selected_changes_to_old(
                            loc[p].old_lines, loc[p].hunks, loc[p].want_set)
               IN  r.ok /\ r.lines = loc[p].new_lines

\* A call under which another process staged the file has returned drift
\* for the identifiers it was given, and the entry is the other process's.
C4_Witness ==
    /\ Returned(1) /\ disturbed[1]
    /\ result[1].status = "skipped" /\ result[1].reason = "drift"
    /\ result[1].changes_skipped > 0
    /\ index.present /\ ~index.content.binary /\ index.content.lines # <<>>

\* The call that has just returned repeated, with the same identifiers and
\* nothing else touching the file or the index in between, a call that had
\* staged at least one change.
Repeated(p) == Returned(p) /\ ~disturbed[p] /\ last[p].again

\* C10 as stated: the repeated call is reported as drift and leaves the
\* index unchanged.
C10_StaleIdentifiersDetected ==
    \A p \in Callers :
        Repeated(p) =>
            /\ result[p].status = "skipped" /\ result[p].reason = "drift"
            /\ index = index_before[p]

\* C10, amended: the repeated call is reported as drift, the index left
\* unchanged, exactly when the first call reported no unstaged line;
\* otherwise the diff is taken and numbered anew and the call is applied to
\* it.
C10_RepeatedApply ==
    \A p \in Callers :
        Repeated(p) =>
            IF last[p].prev_unstaged = 0
            THEN /\ result[p].status = "skipped" /\ result[p].reason = "drift"
                 /\ index = index_before[p]
            ELSE result[p].status = "applied"

\* A repeated call has staged another change under a number it was given.
C10_Witness ==
    /\ Repeated(1)
    /\ last[1].prev_unstaged > 0
    /\ result[1].status = "applied"
    /\ git_read_index_text(index).lines # git_read_index_text(index_before[1]).lines

\* The step by which the call of p leaves the point where it holds the
\* parsed diff.
LeavesDiff(p) == pc[p] = "diff" /\ pc'[p] # "diff"

\* C14: binary files are never patched: when the diff flags the path as
\* binary, the call returns at once, without reading the index content,
\* without running the patcher and without writing the index; every
\* requested identifier is reported skipped with reason "binary", none
\* applied.
C14_BinaryNeverPatched ==
    [][\A p \in Callers :
          (LeavesDiff(p) /\ GitDiff("f", index, worktree, UNIFIED_APPLY).binary)
              => /\ pc'[p] = "idle"
                 /\ loc'[p] = NoLocals
                 /\ index' = index
                 /\ result'[p].status = "skipped"
                 /\ result'[p].reason = "binary"
                 /\ result'[p].skipped = Sorted(loc[p].want_set)
                 /\ result'[p].changes_skipped = Cardinality(loc[p].want_set)
                 /\ result'[p].changes_applied = 0
                 /\ result'[p].files = 0]_vars

\* A call for two identifiers of a path whose working file is binary has
\* returned them skipped as binary.
C14_Witness ==
    /\ Returned(1) /\ ~disturbed[1]
    /\ result[1].reason = "binary"
    /\ result[1].skipped = <<1, 2>>
    /\ worktree.present /\ worktree.content.binary
    /\ index = index_before[1]

\* The call of p holds a parsed diff without any hunk for the path, and the
\* path is not binary.
NothingToApply(p) ==
    LET d == GitDiff("f", index, worktree, UNIFIED_APPLY)
    IN  pc[p] = "diff" /\ ~d.binary /\ d.hunks = <<>>

\* C15: nothing to apply is its own outcome: when no diff exists for the
\* path, the call returns without writing the index, and what it returns
\* differs from what it returns for the same identifiers when the patcher
\* detects drift.
C15_NothingToApplyIsNotFound ==
    [][\A p \in Callers :
          (NothingToApply(p) /\ LeavesDiff(p))
              => /\ pc'[p] = "idle"
                 /\ index' = index
                 /\ result'[p].status = "skipped"
                 /\ result'[p] # Skipped(loc[p].want_set, "drift")]_vars

\* What does hold when no diff exists for the path: the call returns at once
\* and writes nothing, and reports every requested identifier skipped.
NothingToApplyWritesNothing ==
    [][\A p \in Callers :
          (NothingToApply(p) /\ LeavesDiff(p))
              => /\ pc'[p] = "idle"
                 /\ index' = index
                 /\ result'[p].status = "skipped"
                 /\ result'[p].skipped = Sorted(loc[p].want_set)]_vars

\* ------------------------------------------- the patcher, step by step

Signs == {" ", "+", "-"}

\* The context width of apply_one_file, and the narrower widths another
\* caller of the patcher may use.
Widths == {0, 1, UNIFIED_APPLY}

FreeLines == {<<sign>> \o text : sign \in Signs, text \in Texts}

CountSigns(all_lines, signs) ==
    Cardinality({i \in 1..Len(all_lines) : all_lines[i] # <<>> /\ all_lines[i][1] \in signs})

\* A single hunk with any start and any lines; its header counts are those of
\* its lines.
FreeHunk(old_start, all_lines) ==
    LET c1 == CountSigns(all_lines, {" ", "-"})
        c2 == CountSigns(all_lines, {" ", "+"})
        from == IF c1 > 0 THEN old_start ELSE old_start + 1
    IN  HunkRaw("f", old_start, c1, IF c2 > 0 THEN from ELSE from - 1, c2, all_lines)

\* The i-th line of an edit script reads "a" or "b" in turn.
ScriptText(i) == IF i % 2 = 1 THEN <<"a">> ELSE <<"b">>

Scripts ==
    {[i \in 1..Len(signs) |-> EditOp(signs[i], ScriptText(i))] :
        signs \in SeqsUpTo(Signs, MaxScript)}

\* Originals that differ from the one the diff was computed from: one line
\* rewritten, or the last line gone.
Stale(old) ==
    {[old EXCEPT ![k] = <<"z">>] : k \in 1..Len(old)}
    \cup (IF old = <<>> THEN {} ELSE {SubSeq(old, 1, Len(old) - 1)})

InitFree ==
    /\ old_lines \in SeqsUpTo(Texts, MaxOld)
    /\ \E old_start \in 0..(MaxOld + 3), all_lines \in SeqsUpTo(FreeLines, MaxHunkLines) \ {<<>>} :
           hunks = <<FreeHunk(old_start, all_lines)>>
    /\ want_numbers \in SUBSET (1..MaxHunkLines)
    /\ origin = [kind |-> "free", new |-> <<>>, unified |-> 0]

InitDiff ==
    \E script \in Scripts, unified \in Widths :
        /\ hunks \in {UnifiedHunks("f", script, unified),
                     Reverse(UnifiedHunks("f", script, unified))}
        /\ \/ /\ old_lines = OldOf(script)
              /\ origin = [kind |-> "diff", new |-> NewOf(script), unified |-> unified]
           \/ /\ old_lines \in Stale(OldOf(script))
              /\ origin = [kind |-> "stale", new |-> NewOf(script), unified |-> unified]
        /\ want_numbers \in SUBSET (1..NumChanges(script))

InitPatch ==
    /\ InitFree \/ InitDiff
    /\ ps = PatchStart(SortHunks(hunks))
    /\ RepoIdle
    /\ sel = NoCommand
    /\ ParserIdle
    /\ ListerIdle
    /\ UnstackIdle

\* The top of the for-loop over the sorted hunks.
PatchHunk ==
    /\ ps.phase = "hunk"
    /\ ps' = HunkPrologue(old_lines, SortHunks(hunks), ps)
    /\ UNCHANGED <<old_lines, hunks, want_numbers, origin>>
    /\ UNCHANGED <<repoVars, sel, restVars>>

\* One iteration of the for-loop over h.all_lines.
PatchLine ==
    /\ ps.phase = "line"
    /\ ps' = HunkLine(old_lines, SortHunks(hunks), want_numbers, ps)
    /\ UNCHANGED <<old_lines, hunks, want_numbers, origin>>
    /\ UNCHANGED <<repoVars, sel, restVars>>

\* The copy of the lines after the last hunk, and the return.
PatchFinish ==
    /\ ps.phase = "tail"
    /\ ps' = PatchTail(old_lines, ps)
    /\ UNCHANGED <<old_lines, hunks, want_numbers, origin>>
    /\ UNCHANGED <<repoVars, sel, restVars>>

NextPatch == PatchHunk \/ PatchLine \/ PatchFinish

SpecPatch == InitPatch /\ [][NextPatch]_vars

\* ------------------------------------------------ claims on the patcher

Finished == ps.phase \in {"done", "error"}

\* The tagged line the patcher is about to process.
AtLine == ps.phase = "line" /\ SortHunks(hunks)[ps.hi].all_lines[ps.li] # <<>>

CurLine == SortHunks(hunks)[ps.hi].all_lines[ps.li]

CurSign == CurLine[1]

CurText == Tail(CurLine)

CursorInside == ps.old_pos >= 1 /\ ps.old_pos <= Len(old_lines)

CursorMatches == CursorInside /\ old_lines[ps.old_pos] = CurText

RECURSIVE LinesOfHunks(_)
LinesOfHunks(hs) == IF hs = <<>> THEN <<>> ELSE Head(hs).all_lines \o LinesOfHunks(Tail(hs))

\* The tagged lines of the whole diff, in hunk order.
AllTagged == LinesOfHunks(SortHunks(hunks))

ChangeLines == {i \in 1..Len(AllTagged) : AllTagged[i][1] \in {"+", "-"}}

\* The identifier of the change line at index i of AllTagged, counted the way
\* section 3 of the specification defines it.
IdOf(i) == Cardinality({j \in ChangeLines : j <= i})

AllIds == 1..Cardinality(ChangeLines)

\* C1: full-selection round trip: for every hunk list that is a correct
\* unified diff from old to new (of any context width), the patcher with the
\* set of all change identifiers returns exactly new.
C1_FullSelectionRoundTrip ==
    (origin.kind = "diff" /\ want_numbers = AllIds /\ Finished)
        => (ps.phase = "done" /\ ps.new = origin.new)

\* The round trip of C1 for the diffs that carry context (width >= 1), the
\* only kind apply_one_file computes.
FullSelectionRoundTripWithContext ==
    (origin.kind = "diff" /\ origin.unified >= 1 /\ want_numbers = AllIds /\ Finished)
        => (ps.phase = "done" /\ ps.new = origin.new)

\* C2: empty-selection round trip: whenever the patcher succeeds with the
\* empty selection set, it returns old_lines unchanged; and it succeeds on
\* every diff of old_lines.
C2_EmptySelectionRoundTrip ==
    /\ (want_numbers = {} /\ ps.phase = "done") => ps.new = old_lines
    /\ (want_numbers = {} /\ origin.kind = "diff" /\ Finished) => ps.phase = "done"

C2_Witness ==
    /\ want_numbers = {} /\ ps.phase = "done" /\ ps.new = old_lines
    /\ \E i \in ChangeLines : AllTagged[i][1] = "-"
    /\ \E i \in ChangeLines : AllTagged[i][1] = "+"
    /\ Len(hunks) >= 2

\* C3: drift detection: a context or removed line that differs from the
\* original line at the cursor (or finds the cursor past the end) raises, for
\* every selection set, and the raise leaves no output.
C3_DriftDetection ==
    [][(AtLine /\ CurSign \in {" ", "-"} /\ ~CursorMatches)
          => (ps'.phase = "error" /\ ps'.new = <<>>)]_vars

C3_Witness ==
    /\ ps.phase = "error" /\ ps.err = "deletion_mismatch"
    /\ want_numbers = {}
    /\ CursorInside /\ old_lines[ps.old_pos] # CurText

\* C3, its other half: an error is final and no later step yields lines.
ErrorIsFinal == [][ps.phase = "error" => ps' = ps]_vars

\* The index in flat_file_lines_with_numbers' output of the line printed for
\* line li of hunk hi: the lines of the earlier hunks, one separator per
\* earlier hunk, and the earlier lines of this hunk.
RECURSIVE FlatIndex(_, _, _)
FlatIndex(hs, hi, li) ==
    IF hi = 1 THEN li ELSE Len(hs[hi - 1].all_lines) + 1 + FlatIndex(hs, hi - 1, li)

\* The flat line printed for the tagged line the patcher is at.
CurFlat == flat_file_lines_with_numbers(hunks)[FlatIndex(SortHunks(hunks), ps.hi, ps.li)]

\* C5: numbering alignment: the identifier printed in front of an added or
\* removed line is the value of the patcher's change counter when it tests
\* that line; a context line is printed without a number.
C5_NumberingAlignment ==
    AtLine =>
        IF CurSign \in {"+", "-"}
        THEN /\ \A k \in 1..4 : IsDigit(CurFlat[k])
             /\ ParseDecimal(SubSeq(CurFlat, 1, 4)) = ps.num_counter
             /\ SubSeq(CurFlat, 5, 8) = <<":", " ", CurSign, " ">>
             /\ SubSeq(CurFlat, 9, Len(CurFlat)) = CurText
        ELSE CurFlat = Indent8 \o CurText

C5_Witness ==
    /\ AtLine /\ CurSign = "-" /\ ps.hi = 2 /\ ps.num_counter = 3
    /\ 1 \notin want_numbers /\ 2 \in want_numbers
    /\ hunks # SortHunks(hunks)
    /\ ParseDecimal(SubSeq(CurFlat, 1, 4)) = 3

\* C6: deletion application: a removed line that matches the original at the
\* cursor is dropped when its identifier is selected and copied when it is
\* not; the cursor and the counter both advance by one.
C6_DeletionApplication ==
    [][(AtLine /\ CurSign = "-" /\ CursorMatches)
          => /\ ps'.phase # "error"
             /\ ps'.old_pos = ps.old_pos + 1
             /\ ps'.num_counter = ps.num_counter + 1
             /\ ps'.new = IF ps.num_counter \in want_numbers THEN ps.new
                          ELSE Append(ps.new, old_lines[ps.old_pos])]_vars

\* A selected and an unselected deletion have both been applied.
C6_Witness ==
    /\ ps.phase = "done" /\ origin.kind = "diff"
    /\ \E i, j \in ChangeLines :
          /\ AllTagged[i][1] = "-" /\ IdOf(i) \in want_numbers
          /\ AllTagged[j][1] = "-" /\ IdOf(j) \notin want_numbers
    /\ Len(ps.new) < Len(old_lines)

\* C7: addition application: the text of an added line is emitted when its
\* identifier is selected and nothing is emitted when it is not; the cursor
\* stays and the counter advances by one.
C7_AdditionApplication ==
    [][(AtLine /\ CurSign = "+")
          => /\ ps'.phase # "error"
             /\ ps'.old_pos = ps.old_pos
             /\ ps'.num_counter = ps.num_counter + 1
             /\ ps'.new = IF ps.num_counter \in want_numbers THEN Append(ps.new, CurText)
                          ELSE ps.new]_vars

\* A selected and an unselected addition have both been processed.
C7_Witness ==
    /\ ps.phase = "done" /\ origin.kind = "diff"
    /\ \E i, j \in ChangeLines :
          /\ AllTagged[i][1] = "+" /\ IdOf(i) \in want_numbers
          /\ AllTagged[j][1] = "+" /\ IdOf(j) \notin want_numbers
    /\ Len(ps.new) > Len(old_lines)

\* C9: out-of-bounds hunk: whenever a hunk's old start exceeds the number of
\* original lines by more than one, the patcher fails, whatever the selection
\* and whatever lines the hunk holds.
C9_OutOfBoundsHunk ==
    ((\E i \in 1..Len(hunks) : hunks[i].old_start > Len(old_lines) + 1) /\ Finished)
        => ps.phase = "error"

\* What the code's bound test does reject: an old start more than two past
\* the number of original lines.
OutOfBoundsByTwo ==
    ((\E i \in 1..Len(hunks) : hunks[i].old_start > Len(old_lines) + 2) /\ Finished)
        => ps.phase = "error"

\* Identifiers no change line of the diff carries: zero, and the two next
\* after the last.
UnknownIds == {0} \cup {Cardinality(ChangeLines) + k : k \in 1..2}

\* C13: unknown identifiers are a no-op: the patcher, run on the selection
\* together with any identifiers that do not occur in the diff, ends as it
\* has ended on the selection alone: the same content, or the same error,
\* and no error where the selection alone has none.
C13_UnknownIdentifiersNoOp ==
    Finished =>
        \A U \in SUBSET UnknownIds :
            LET r == apply_selected_changes_to_old(old_lines, hunks, want_numbers \cup U)
            IN  /\ r.ok = (ps.phase = "done")
                /\ r.ok => r.lines = ps.new
                /\ r.err = ps.err

\* The patcher has applied a selection that names a change of the diff and
\* an identifier beyond its last change, and has changed the content.
C13_Witness ==
    /\ ps.phase = "done"
    /\ want_numbers \cap AllIds # {}
    /\ want_numbers \ AllIds # {}
    /\ ps.new # old_lines

\* ------------------------------------------------------ the apply command

\* Most tokens in one argument of the apply command.
MaxTokens == 2

\* A token names one identifier, or the identifiers from lo to hi.
Tokens ==
    [range : {FALSE}, lo : 1..MaxId, hi : {0}] \cup [range : {TRUE}, lo : 1..MaxId, hi : 1..MaxId]

SelRequests == SeqsUpTo(Tokens, MaxTokens)

\* The text of a token: NNNN or AAAA-BBBB.
TokenText(tok) ==
    IF tok.range THEN Format04d(tok.lo) \o <<"-">> \o Format04d(tok.hi) ELSE Format04d(tok.lo)

\* The argument a caller writes for a request: its tokens, with ", " between.
RECURSIVE Written(_)
Written(request) ==
    IF request = <<>> THEN <<>>
    ELSE IF Len(request) = 1 THEN TokenText(request[1])
    ELSE TokenText(Head(request)) \o <<",", " ">> \o Written(Tail(request))

\* The identifiers a request names.
Denoted(request) ==
    UNION {IF request[i].range THEN request[i].lo..request[i].hi ELSE {request[i].lo} :
           i \in 1..Len(request)}

\* The diffs of the apply command: MaxScript lines, each removed or added.
SelScripts == {script \in Scripts : Len(script) = MaxScript /\ NumChanges(script) = MaxScript}

InitSel ==
    /\ \E script \in SelScripts :
           /\ old_lines = OldOf(script)
           /\ hunks = UnifiedHunks("f", script, UNIFIED_APPLY)
           /\ origin = [kind |-> "diff", new |-> NewOf(script), unified |-> UNIFIED_APPLY]
    /\ want_numbers = {}
    /\ ps = PatchStart(SortHunks(hunks))
    /\ \E request \in SelRequests :
           sel = [NoCommand EXCEPT !.phase = "parse", !.request = request,
                                   !.numbers = Written(request)]
    /\ RepoIdle
    /\ ParserIdle
    /\ ListerIdle
    /\ UnstackIdle

\* A variant that goes on with the numbers parsed although the parser raised.
ParseNumbers_CallsAnyway ==
    /\ sel.phase = "parse"
    /\ sel' = [sel EXCEPT !.phase = "select", !.nums = parse_number_tokens(sel.numbers).nums]
    /\ UNCHANGED <<patchVars, repoVars, restVars>>

\* numbers = parse_number_tokens(args.numbers); a ValueError ends the command.
ParseNumbers ==
    /\ sel.phase = "parse"
    /\ LET r == parse_number_tokens(sel.numbers)
       IN  sel' = [sel EXCEPT !.phase = IF r.ok THEN "select" ELSE "rejected", !.nums = r.nums]
    /\ UNCHANGED <<patchVars, repoVars, restVars>>

\* want_set = set(want_numbers)
SelectSet ==
    /\ sel.phase = "select"
    /\ want_numbers' = ToSet(sel.nums)
    /\ sel' = [sel EXCEPT !.phase = "patch"]
    /\ UNCHANGED <<old_lines, hunks, ps, origin, repoVars, restVars>>

\* new_lines = apply_selected_changes_to_old(old_lines, hunks, want_set)
ComputeContent ==
    /\ sel.phase = "patch"
    /\ LET r == apply_selected_changes_to_old(old_lines, hunks, want_numbers)
       IN  sel' = [sel EXCEPT !.phase = "done", !.ok = r.ok, !.new_lines = r.lines]
    /\ UNCHANGED <<patchVars, repoVars, restVars>>

NextSel == ParseNumbers \/ SelectSet \/ ComputeContent

SpecSel == InitSel /\ [][NextSel]_vars

\* C8: the content computed for an argument is the content of the set of
\* identifiers its tokens name, whatever their order, however often a token
\* comes and however the tokens overlap.
C8_SetSemantics ==
    sel.phase = "done" =>
        LET r == apply_selected_changes_to_old(old_lines, hunks, Denoted(sel.request))
        IN  sel.ok = r.ok /\ sel.new_lines = r.lines

\* An argument whose tokens overlap and come out of order has been applied,
\* and has changed the content.
C8_Witness ==
    /\ sel.phase = "done" /\ sel.ok
    /\ Len(sel.nums) > Cardinality(Denoted(sel.request))
    /\ \E i \in 1..(Len(sel.nums) - 1) : sel.nums[i] > sel.nums[i + 1]
    /\ sel.new_lines # old_lines
    /\ sel.new_lines # origin.new


\* ------------------------------------ byte-exact staging (apply_one_file)

\* The number of change lines of a parsed diff: its identifiers are 1..n.
ChangeCount(hs) ==
    Cardinality({i \in 1..Len(LinesOfHunks(hs)) : LinesOfHunks(hs)[i][1] \in {"+", "-"}})

\* The call of p, given every identifier of the diff it computed, has just
\* written the index; the file exists and nobody else wrote the index during
\* the call.
StagedAll(p) ==
    /\ pc[p] = "report" /\ ~disturbed[p]
    /\ worktree.present
    /\ loc[p].want_set = 1..ChangeCount(loc[p].hunks)

\* C11: byte-exact staging: after apply_one_file has succeeded with the
\* complete identifier set of a path, the content bound to the path in the
\* index equals the content of the working file byte for byte, final newline
\* included, for a modified file and for an untracked file alike.
C11_ByteExactStaging ==
    \A p \in Callers : StagedAll(p) => index.content = worktree.content

\* What does hold of the complete selection: the staged content is the
\* working file's whenever the entry read by the call and the working file
\* both end with a newline, or both hold lines and do not end with one.
ByteExactWhenNewlineKept ==
    \A p \in Callers :
        (/\ StagedAll(p)
         /\ index_before[p].present
         /\ index_before[p].content.lines # <<>>
         /\ worktree.content.lines # <<>>
         /\ index_before[p].content.nl = worktree.content.nl)
            => index.content = worktree.content

\* The complete selection has staged an untracked file that ends with a
\* newline.
StagedUntrackedWithNewline ==
    /\ StagedAll(1)
    /\ ~index_before[1].present
    /\ worktree.content.nl


\* -------------------------------------- the apply command on a repository

\* The pieces an argument is made of: a number, a range, a range that runs
\* backwards, nothing, a number after a blank, three digits, a letter among
\* the digits.
Pieces ==
    {Format04d(1), Format04d(2),
     Format04d(1) \o <<"-">> \o Format04d(2),
     Format04d(2) \o <<"-">> \o Format04d(1),
     <<>>,
     <<" ">> \o Format04d(1),
     <<"0", "0", "1">>,
     <<"0", "0", "0", "a">>}

\* ",".join(pieces)
RECURSIVE JoinOnComma(_)
JoinOnComma(pieces) ==
    IF pieces = <<>> THEN <<>>
    ELSE IF Len(pieces) = 1 THEN pieces[1]
    ELSE Head(pieces) \o <<",">> \o JoinOnComma(Tail(pieces))

Arguments == {JoinOnComma(pieces) : pieces \in SeqsUpTo(Pieces, MaxTokens) \ {<<>>}}

\* The path is untracked or tracked, and its file holds something else than
\* the entry; both are new contents.
InitCommand ==
    /\ index \in {NoEntry} \cup [present : {TRUE}, content : CreatedContents, mode : {"100644"}]
    /\ worktree \in [present : {TRUE}, content : CreatedContents, exec : {FALSE}]
    /\ index.present => index.content # worktree.content
    /\ pc = [p \in Callers |-> "idle"]
    /\ loc = [p \in Callers |-> NoLocals]
    /\ result = [p \in Callers |-> NoResult]
    /\ index_before = [p \in Callers |-> index]
    /\ disturbed = [p \in Callers |-> FALSE]
    /\ last = [p \in Callers |-> NoLast]
    /\ \E numbers \in Arguments :
           sel = [NoCommand EXCEPT !.phase = "parse", !.numbers = numbers]
    /\ PatchIdle
    /\ ParserIdle
    /\ ListerIdle
    /\ UnstackIdle

\* resp = apply_one_file(args.path, numbers), called once.
CallApply ==
    /\ sel.phase = "select"
    /\ result[1].status = "none"
    /\ Invoke(1, sel.nums)

\* The apply command, alone on the repository: nobody else writes the index
\* meanwhile, so the patcher does not raise on the diff just taken.
NextCommand ==
    \/ ParseNumbers
    \/ CallApply
    \/ DiffBinary(1)
    \/ DiffNothing(1)
    \/ DiffHunks(1)
    \/ ReadIndexPatched(1)
    \/ DetectMode(1)
    \/ WriteIndex(1)
    \/ Report(1)

SpecCommand == InitCommand /\ [][NextCommand]_vars

\* The pieces of an argument, as written between its commas.
PiecesOf(numbers) == SplitOnComma(numbers, 1, <<>>)

\* A piece that is a number of four digits, or a range of two such numbers
\* that does not run backwards.
WellFormed(t) ==
    \/ FourDigits(t)
    \/ /\ FourDigitRange(t)
       /\ ParseDecimal(SubSeq(t, 1, 4)) <= ParseDecimal(SubSeq(t, 6, 9))

\* The command has ended with the error, without a call of apply_one_file:
\* no diff was taken and the index is as it was.
RejectedUntouched ==
    /\ sel.phase = "rejected"
    /\ pc[1] = "idle" /\ loc[1] = NoLocals /\ result[1] = NoResult
    /\ index = index_before[1]

MaxRaw == 4

\* The lengths a hunk header gives for a side: none, or a number.
HeaderLengths == {None} \cup {Some(n) : n \in {0, 1, 10}}

\* One side of a hunk header: O or O,L.
HeaderSide(start, length) ==
    Decimal(start) \o (IF length = None THEN <<>> ELSE <<",">> \o Decimal(length[1]))

\* @@ -O[,L] +O2[,L2] @@
HeaderText(o, l, o2, l2) ==
    <<"@", "@", " ", "-">> \o HeaderSide(o, l) \o <<" ", "+">> \o HeaderSide(o2, l2) \o <<" ", "@", "@">>

HeaderLines == {HeaderText(1, l, 1, l2) : l \in HeaderLengths, l2 \in HeaderLengths}

\* The lines of a file header, and the line that stands for a binary file.
FileLines ==
    {<<"d", "i", "f", "f", " ", "-", "-", "g", "i", "t", " ", "a", "/", "f", " ", "b", "/", "f">>,
     <<"-", "-", "-", " ", "a", "/", "f">>,
     <<"+", "+", "+", " ", "b", "/", "f">>,
     <<"B", "i", "n", "a", "r", "y", " ", "f", "i", "l", "e", "s", " ", "a", "/", "f", " ", "a", "n", "d", " ", "b", "/", "f", " ", "d", "i", "f", "f", "e", "r">>}

\* The lines of a hunk: a line kept, added, removed; the removed line
\* "-- q" and the added line "++ q"; the no-newline marker; an empty line.
BodyLines ==
    {<<" ", "a">>, <<"+", "a">>, <<"-", "a">>,
     <<"-", "-", "-", " ", "q">>, <<"+", "+", "+", " ", "q">>,
     NoNewlineMarker,
     <<>>}

RawLines == FileLines \cup HeaderLines \cup BodyLines

InitParse ==
    /\ ParserIdle
    /\ ListerIdle
    /\ UnstackIdle
    /\ RepoIdle
    /\ PatchIdle
    /\ sel = NoCommand

\* The for-loop takes the next line of the text.
ReadLine ==
    /\ parser.n < MaxRaw
    /\ \E raw \in RawLines :
           parser' = [st |-> ParseRawLine(parser.st, raw), raw |-> Some(raw), n |-> parser.n + 1]
    /\ UNCHANGED <<patchVars, repoVars, sel, unstackVars, lister>>

NextParse == ReadLine

SpecParse == InitParse /\ [][NextParse]_vars

\* -------------------------------------------- claims on the hunk parser

\* The HunkRaw that is open.
OpenHunk == parser.st.files_hunks[parser.st.cur_hunk[1].path][parser.st.cur_hunk[1].at]

\* C16: an omitted hunk length defaults to 1: once the header
\* @@ -O[,L] +O2[,L2] @@ is read under a path, the hunk it opens has the
\* starts O and O2, on each side the length written, 0 included, and the
\* length 1 on a side whose length is omitted.
C16_OmittedLengthDefaultsToOne ==
    \A l \in HeaderLengths, l2 \in HeaderLengths :
        (/\ parser.raw = Some(HeaderText(1, l, 1, l2))
         /\ parser.st.cur_path # None /\ parser.st.cur_path[1] # <<>>)
            => /\ parser.st.cur_hunk # None
               /\ OpenHunk.path = parser.st.cur_path[1]
               /\ OpenHunk.all_lines = <<>>
               /\ OpenHunk.old_start = 1
               /\ OpenHunk.new_start = 1
               /\ OpenHunk.old_lines = (IF l = None THEN 1 ELSE l[1])
               /\ OpenHunk.new_lines = (IF l2 = None THEN 1 ELSE l2[1])

\* The header "@@ -1 +1,0 @@" has opened a hunk of one old line and no new
\* line.
C16_Witness ==
    /\ parser.raw = Some(HeaderText(1, None, 1, Some(0)))
    /\ parser.st.cur_hunk # None
    /\ OpenHunk.old_lines = 1
    /\ OpenHunk.new_lines = 0
    /\ OpenHunk.all_lines = <<>>

\* The line read by this step begins with " ", "+" or "-" and is not the
\* no-newline marker, and a hunk is open.
ReadsHunkLine ==
    /\ parser.st.cur_hunk # None
    /\ parser'.raw # None
    /\ parser'.raw[1] # <<>>
    /\ parser'.raw[1][1] \in {" ", "+", "-"}
    /\ ~StartsWith(parser'.raw[1], NoNewlineMarker)

\* The step has appended the line to the open hunk and has left the current
\* path and the open hunk as they were.
LineRetained ==
    /\ parser'.st.cur_path = parser.st.cur_path
    /\ parser'.st.cur_hunk = parser.st.cur_hunk
    /\ parser'.st.a_path = parser.st.a_path
    /\ parser'.st.b_path = parser.st.b_path
    /\ OpenHunk' = [OpenHunk EXCEPT !.all_lines = Append(@, parser'.raw[1])]

\* C17: hunk lines are retained verbatim: while a hunk is open, every line
\* that begins with " ", "+" or "-", the no-newline marker apart, is appended
\* to that hunk, whatever its text, a text that begins with "-- " or "++ "
\* included; such a line never changes the current path and is never
\* dropped.
C17_HunkLinesRetained == [][ReadsHunkLine => LineRetained]_vars

\* What does hold: the line is retained unless it reads as the old or the
\* new path of a file header.
HunkLinesRetainedUnlessFileHeader ==
    [][(/\ ReadsHunkLine
        /\ ~StartsWith(parser'.raw[1], <<"-", "-", "-", " ">>)
        /\ ~StartsWith(parser'.raw[1], <<"+", "+", "+", " ">>)) => LineRetained]_vars


\* ----------------------------------------- unstack (dependency analyzer)
\*
\* The replay of commits onto a parent, as sections 4.4 and 7 of the
\* specification describe it; the patcher it runs is the one above.

\* Commits of the original history, after the parent.
MaxCommits == 3
\* Most commits in the list of a branch.
MaxList == 2

ReplayTexts == {<<"a">>, <<"b">>}

\* The snapshots of the file: lines, none twice.
Snapshots == {q \in SeqsUpTo(ReplayTexts, MaxLen) : NoRepeat(q)}

\* The original histories: each commit changes the file. (The two texts are
\* interchangeable, so the parent's snapshot is taken with "a" first.)
Histories ==
    {h \in [1..(MaxCommits + 1) -> Snapshots] :
        /\ \A c \in 1..MaxCommits : h[c] # h[c + 1]
        /\ h[1] = <<>> \/ h[1][1] = <<"a">>}

\* The ordered lists of a branch: commits of the history, none twice.
CommitLists == {q \in SeqsUpTo(1..MaxCommits, MaxList) : q # <<>> /\ NoRepeat(q)}

AsContent(lines) ==
    IF lines = <<>> THEN EmptyContent ELSE [binary |-> FALSE, lines |-> lines, nl |-> TRUE]

\* The commit's own patch: the diff between the commit and its immediate
\* original predecessor.
OwnPatch(c) ==
    UnifiedHunks("f", DiffScript(AsContent(history.snapshots[c]),
                                 AsContent(history.snapshots[c + 1])),
                 history.unified)

\* Full selection of the commit's patch against the content accumulated.
ReplayOne(content, c) ==
    apply_selected_changes_to_old(content, OwnPatch(c), 1..ChangeCount(OwnPatch(c)))

Outcome(state, failed, detail, content) ==
    [name |-> branch.name, commits |-> branch.commits, state |-> state,
     applied |-> branch.applied, failed |-> failed, detail |-> detail, content |-> content]

\* The evaluation of the branch ends; the next branch of the request follows.
Conclude(outcome) ==
    /\ outcomes' = Append(outcomes, outcome)
    /\ branch' = NoBranch

InitUnstack ==
    /\ history \in [snapshots : Histories, unified : {UNIFIED_APPLY}]
    /\ refs \in {[name \in {"x", "y"} |-> None],
                 [name \in {"x", "y"} |->
                     IF name = "x" THEN Some(history.snapshots[MaxCommits + 1]) ELSE None]}
    /\ branch = NoBranch
    /\ outcomes = <<>>
    /\ ParserIdle
    /\ ListerIdle
    /\ RepoIdle
    /\ PatchIdle
    /\ sel = NoCommand

\* The next branch specification of the request: PENDING.
TakeBranch ==
    /\ branch.state = "NONE"
    /\ Len(outcomes) < Len(BranchNames)
    /\ \E commits \in CommitLists :
           branch' = [NoBranch EXCEPT !.name = BranchNames[Len(outcomes) + 1],
                                      !.commits = commits,
                                      !.state = "PENDING"]
    /\ UNCHANGED <<history, refs, outcomes>>
    /\ UNCHANGED <<patchVars, repoVars, sel, parser, lister>>

\* A variant of the pre-check that lets the replay go on over a name that
\* exists.
PreCheckFails_Replays ==
    /\ branch.state = "PENDING"
    /\ refs[branch.name] # None
    /\ branch' = [branch EXCEPT !.state = "APPLYING", !.content = history.snapshots[1]]
    /\ UNCHANGED <<history, refs, outcomes>>
    /\ UNCHANGED <<patchVars, repoVars, sel, parser, lister>>

\* Pre-check: the branch name already exists: FAILED(naming).
PreCheckFails ==
    /\ branch.state = "PENDING"
    /\ refs[branch.name] # None
    /\ Conclude(Outcome("NAMING", 0, "already exists", <<>>))
    /\ UNCHANGED <<history, refs>>
    /\ UNCHANGED <<patchVars, repoVars, sel, parser, lister>>

\* A variant of the pre-check that starts the replay from the content the
\* branch evaluated before has left.
PreCheckPasses_FromPrevious ==
    /\ branch.state = "PENDING"
    /\ refs[branch.name] = None
    /\ branch' = [branch EXCEPT !.state = "APPLYING",
                                !.content = IF outcomes = <<>> THEN history.snapshots[1]
                                            ELSE outcomes[Len(outcomes)].content]
    /\ UNCHANGED <<history, refs, outcomes>>
    /\ UNCHANGED <<patchVars, repoVars, sel, parser, lister>>

\* Pre-check: the name is free: APPLYING, from the parent's snapshot.
PreCheckPasses ==
    /\ branch.state = "PENDING"
    /\ refs[branch.name] = None
    /\ branch' = [branch EXCEPT !.state = "APPLYING", !.content = history.snapshots[1]]
    /\ UNCHANGED <<history, refs, outcomes>>
    /\ UNCHANGED <<patchVars, repoVars, sel, parser, lister>>

\* The next commit applies: the content becomes the patcher's output.
ReplayApplies ==
    /\ branch.state = "APPLYING"
    /\ branch.next <= Len(branch.commits)
    /\ LET c == branch.commits[branch.next]
           r == ReplayOne(branch.content, c)
       IN  /\ r.ok
           /\ branch' = [branch EXCEPT !.content = r.lines,
                                       !.applied = Append(@, c),
                                       !.next = @ + 1]
    /\ UNCHANGED <<history, refs, outcomes>>
    /\ UNCHANGED <<patchVars, repoVars, sel, parser, lister>>

\* A variant that keeps, on a conflict, a branch of the commits applied so
\* far.
ReplayConflicts_KeepsPrefix ==
    /\ branch.state = "APPLYING"
    /\ branch.next <= Len(branch.commits)
    /\ LET c == branch.commits[branch.next]
           r == ReplayOne(branch.content, c)
       IN  /\ ~r.ok
           /\ Conclude(Outcome("CONFLICT", c, r.err, <<>>))
    /\ refs' = [refs EXCEPT ![branch.name] = Some(branch.content)]
    /\ UNCHANGED history
    /\ UNCHANGED <<patchVars, repoVars, sel, parser, lister>>

\* A variant that passes over the commit that drifts and goes on with the
\* rest of the list.
ReplayConflicts_SkipsCommit ==
    /\ branch.state = "APPLYING"
    /\ branch.next <= Len(branch.commits)
    /\ LET c == branch.commits[branch.next]
           r == ReplayOne(branch.content, c)
       IN  /\ ~r.ok
           /\ branch' = [branch EXCEPT !.next = @ + 1]
    /\ UNCHANGED <<history, refs, outcomes>>
    /\ UNCHANGED <<patchVars, repoVars, sel, parser, lister>>

\* The next commit drifts: CONFLICT, which names the commit and the drift;
\* no branch is created.
ReplayConflicts ==
    /\ branch.state = "APPLYING"
    /\ branch.next <= Len(branch.commits)
    /\ LET c == branch.commits[branch.next]
           r == ReplayOne(branch.content, c)
       IN  /\ ~r.ok
           /\ Conclude(Outcome("CONFLICT", c, r.err, <<>>))
    /\ UNCHANGED <<history, refs>>
    /\ UNCHANGED <<patchVars, repoVars, sel, parser, lister>>

\* All commits consumed: COMMITTED; the branch ref is created on a commit
\* that holds the final content.
Materialize ==
    /\ branch.state = "APPLYING"
    /\ branch.next > Len(branch.commits)
    /\ refs' = [refs EXCEPT ![branch.name] = Some(branch.content)]
    /\ Conclude(Outcome("COMMITTED", 0, "none", branch.content))
    /\ UNCHANGED history
    /\ UNCHANGED <<patchVars, repoVars, sel, parser, lister>>

NextUnstack ==
    \/ TakeBranch
    \/ PreCheckFails
    \/ PreCheckPasses
    \/ ReplayApplies
    \/ ReplayConflicts
    \/ Materialize

SpecUnstack == InitUnstack /\ [][NextUnstack]_vars

\* stats.successful_branches and stats.failed_branches of the response
SuccessfulBranches ==
    Cardinality({k \in 1..Len(outcomes) : outcomes[k].state = "COMMITTED"})

FailedBranches ==
    Cardinality({k \in 1..Len(outcomes) : outcomes[k].state # "COMMITTED"})


\* ------------------------------------------------------ claims on unstack

\* The fold of a list of commits over the patcher, from a content: the
\* content reached, or the first commit that drifts.
RECURSIVE ReplayFold(_, _)
ReplayFold(content, commits) ==
    IF commits = <<>> THEN [ok |-> TRUE, lines |-> content, failed |-> 0]
    ELSE LET r == ReplayOne(content, Head(commits))
         IN  IF r.ok THEN ReplayFold(r.lines, Tail(commits))
             ELSE [ok |-> FALSE, lines |-> <<>>, failed |-> Head(commits)]

\* The branch of the outcome was replayed: its name was free.
Replayed(o) == o.state \in {"COMMITTED", "CONFLICT"}

\* The branch ends COMMITTED exactly when the fold of its list from the
\* parent's snapshot meets no drift; the committed content, and the content
\* of the ref, is that fold, and all listed commits are reported applied.
OutcomeIsFold(o) ==
    LET f == ReplayFold(history.snapshots[1], o.commits)
    IN  /\ (o.state = "COMMITTED") <=> f.ok
        /\ o.state = "COMMITTED" =>
               /\ o.content = f.lines
               /\ o.applied = o.commits
               /\ refs[o.name] = Some(f.lines)

\* The patch of commit b adds a line of text t.
Adds(b, t) ==
    \E k \in 1..Len(LinesOfHunks(OwnPatch(b))) : LinesOfHunks(OwnPatch(b))[k] = <<"+">> \o t

\* The patch of commit c deletes or uses as context a line of text t.
Reads(c, t) ==
    \E k \in 1..Len(LinesOfHunks(OwnPatch(c))) :
        LinesOfHunks(OwnPatch(c))[k] \in {<<"-">> \o t, <<" ">> \o t}

\* Commit b, earlier than c, introduced a line that the patch of c deletes
\* or uses as context.
DependsOn(c, b) ==
    /\ b < c
    /\ \E t \in ReplayTexts :
           /\ Reads(c, t)
           /\ Adds(b, t)
           /\ \A d \in (b + 1)..(c - 1) : ~Adds(d, t)

\* The commits listed before position i of the outcome's list.
ListedBefore(o, i) == {o.commits[j] : j \in 1..(i - 1)}

\* The commits before position i have applied.
ReachedCommit(o, i) == Replayed(o) /\ i \in 1..Len(o.commits) /\ Len(o.applied) >= i - 1

ConflictNaming(o, c) == o.state = "CONFLICT" /\ o.failed = c /\ o.detail # "none"

C19_AllOrNothing ==
    /\ branch.state = "APPLYING" => refs[branch.name] = None
    /\ \A k \in 1..Len(outcomes) :
           /\ outcomes[k].state = "CONFLICT" => refs[outcomes[k].name] = None
           /\ (Replayed(outcomes[k]) /\ refs[outcomes[k].name] # None)
                  => outcomes[k].state = "COMMITTED"

\* The second commit of a list has failed after the first had applied and
\* changed the content, and the branch has no ref.
C19_Witness ==
    /\ Len(outcomes) >= 1
    /\ outcomes[1].state = "CONFLICT"
    /\ Len(outcomes[1].commits) = 2
    /\ outcomes[1].applied = <<outcomes[1].commits[1]>>
    /\ outcomes[1].failed = outcomes[1].commits[2]
    /\ ReplayFold(history.snapshots[1], outcomes[1].applied).lines # history.snapshots[1]
    /\ refs[outcomes[1].name] = None

\* The branch that is PENDING has a name that exists.
NameTaken == branch.state = "PENDING" /\ refs[branch.name] # None

\* C20: naming pre-check: a branch whose name exists goes from PENDING
\* directly to the naming failure, whose error says that the branch already
\* exists; no commit is replayed for it, the ref is not moved, and the
\* branch counts as one failed branch and no successful one.
C20_NamingPreCheck ==
    [][NameTaken =>
          /\ branch'.state = "NONE"
          /\ Len(outcomes') = Len(outcomes) + 1
          /\ LET o == outcomes'[Len(outcomes')]
             IN  /\ o.name = branch.name
                 /\ o.state = "NAMING"
                 /\ o.detail = "already exists"
                 /\ o.applied = <<>>
                 /\ o.failed = 0
          /\ refs' = refs
          /\ FailedBranches' = FailedBranches + 1
          /\ SuccessfulBranches' = SuccessfulBranches]_vars

\* The request for the name that exists has failed on the name, the ref
\* holds what it held, and the other branch of the request is committed.
C20_Witness ==
    /\ Len(outcomes) = 2
    /\ outcomes[1].state = "NAMING"
    /\ outcomes[1].applied = <<>>
    /\ refs["x"] = Some(history.snapshots[MaxCommits + 1])
    /\ outcomes[2].state = "COMMITTED"
    /\ FailedBranches = 1
    /\ SuccessfulBranches = 1


\* The outcome of a branch requested alone against the parent: the naming
\* failure when its name exists, else the replay of its list, in order, from
\* the parent's snapshot, up to the first commit that drifts.
RECURSIVE ReplayAlone(_, _, _, _)
ReplayAlone(name, commits, applied, content) ==
    IF Len(applied) = Len(commits)
    THEN [name |-> name, commits |-> commits, state |-> "COMMITTED", applied |-> applied,
          failed |-> 0, detail |-> "none", content |-> content]
    ELSE LET c == commits[Len(applied) + 1]
             r == ReplayOne(content, c)
         IN  IF r.ok THEN ReplayAlone(name, commits, Append(applied, c), r.lines)
             ELSE [name |-> name, commits |-> commits, state |-> "CONFLICT",
                   applied |-> applied, failed |-> c, detail |-> r.err, content |-> <<>>]

AloneOutcome(name, commits, ref) ==
    IF ref # None
    THEN [name |-> name, commits |-> commits, state |-> "NAMING", applied |-> <<>>,
          failed |-> 0, detail |-> "already exists", content |-> <<>>]
    ELSE ReplayAlone(name, commits, <<>>, history.snapshots[1])

\* C21: branch independence: the outcome with which the evaluation of a
\* branch ends is the outcome of that branch requested alone against the
\* same parent (COMMITTED with its content, the conflict with its failing
\* commit, or the naming failure), whatever the branches evaluated before
\* have left; the outcomes recorded before are kept as they are, the ref of
\* no other branch is moved or removed, and the replay starts from the
\* parent's snapshot.
C21_BranchIndependence ==
    [][/\ outcomes' # outcomes =>
              /\ outcomes' = Append(outcomes,
                                    AloneOutcome(branch.name, branch.commits, refs[branch.name]))
              /\ refs'[branch.name] =
                     IF outcomes'[Len(outcomes')].state = "COMMITTED"
                     THEN Some(outcomes'[Len(outcomes')].content)
                     ELSE refs[branch.name]
       /\ \A name \in DOMAIN refs : refs'[name] # refs[name] => name = branch.name
       /\ (branch.state = "PENDING" /\ branch'.state = "APPLYING")
              => branch'.content = history.snapshots[1]]_vars

\* The first branch is committed with a content that is not the parent's;
\* the second is committed with the replay of its list from the parent's
\* snapshot, and the replay of its list from the content of the first would
\* have ended otherwise.
C21_Witness ==
    /\ Len(outcomes) = 2
    /\ outcomes[1].state = "COMMITTED"
    /\ outcomes[1].content # history.snapshots[1]
    /\ outcomes[2].state = "COMMITTED"
    /\ outcomes[2].content = ReplayFold(history.snapshots[1], outcomes[2].commits).lines
    /\ ReplayFold(outcomes[1].content, outcomes[2].commits)
           # ReplayFold(history.snapshots[1], outcomes[2].commits)
    /\ refs["x"] = Some(outcomes[1].content)
    /\ refs["y"] = Some(outcomes[2].content)

\* The first branch has ended in a conflict and the second is committed.
CommittedAfterConflict ==
    /\ Len(outcomes) = 2
    /\ outcomes[1].state = "CONFLICT"
    /\ outcomes[2].state = "COMMITTED"
    /\ refs["x"] = None
    /\ refs["y"] = Some(outcomes[2].content)


\* The commit that comes next in the list of the branch drifts against the
\* content accumulated.
ConflictAhead ==
    /\ branch.state = "APPLYING"
    /\ branch.next <= Len(branch.commits)
    /\ ~ReplayOne(branch.content, branch.commits[branch.next]).ok

\* C27: replay stops at the first conflict: the commits before the one that
\* comes next have applied, in list order, from the parent's snapshot; when
\* the one that comes next drifts the branch ends in CONFLICT, which records
\* exactly that commit, the drift detail and the commits applied before it;
\* no commit after it is attempted (the evaluation of the branch is over, and
\* an outcome recorded never changes), no ref is written, and the next
\* branch of the request can be taken.
C27_StopsAtFirstConflict ==
    [][/\ branch.state = "APPLYING" =>
              /\ branch.applied = SubSeq(branch.commits, 1, branch.next - 1)
              /\ ReplayFold(history.snapshots[1], branch.applied)
                     = [ok |-> TRUE, lines |-> branch.content, failed |-> 0]
       /\ ConflictAhead =>
              /\ outcomes' = Append(outcomes,
                     [name |-> branch.name, commits |-> branch.commits, state |-> "CONFLICT",
                      applied |-> SubSeq(branch.commits, 1, branch.next - 1),
                      failed |-> branch.commits[branch.next],
                      detail |-> ReplayOne(branch.content, branch.commits[branch.next]).err,
                      content |-> <<>>])
              /\ outcomes'[Len(outcomes')].detail # "none"
              /\ branch' = NoBranch
              /\ refs' = refs
       /\ \A k \in 1..Len(outcomes) : Len(outcomes') >= k /\ outcomes'[k] = outcomes[k]
       /\ (branch.state = "NONE" /\ Len(outcomes) < Len(BranchNames)) => ENABLED TakeBranch]_vars

\* The first commit of a list of two has drifted against the parent's
\* snapshot, to which the second would have applied: the branch has ended
\* in a conflict recording the first, nothing is applied, and the next
\* branch of the request has been evaluated and is committed.
C27_Witness ==
    /\ Len(outcomes) = 2
    /\ outcomes[1].state = "CONFLICT"
    /\ Len(outcomes[1].commits) = 2
    /\ outcomes[1].failed = outcomes[1].commits[1]
    /\ outcomes[1].applied = <<>>
    /\ outcomes[1].detail # "none"
    /\ ReplayOne(history.snapshots[1], outcomes[1].commits[2]).ok
    /\ outcomes[2].state = "COMMITTED"


\* ----------------------------------------------- the patcher on hunk lists
\*
\* The patcher and the addresser on lists of two hunks with any starts and
\* any lines: the hunks may overlap, share their starts, come in any order
\* and lie beyond the end of the file.

\* The originals: the two texts are interchangeable, so the first line, if
\* any, reads "a".
HunkListOriginals == {old \in SeqsUpTo(Texts, MaxOld) : old = <<>> \/ old[1] = <<"a">>}

InitHunks ==
    /\ old_lines \in HunkListOriginals
    /\ \E s1, s2 \in 0..(MaxOld + 1),
          l1 \in SeqsUpTo(FreeLines, MaxHunkLines) \ {<<>>},
          l2 \in SeqsUpTo(FreeLines, 1) \ {<<>>} :
           hunks \in {<<FreeHunk(s1, l1), FreeHunk(s2, l2)>>,
                      <<FreeHunk(s2, l2), FreeHunk(s1, l1)>>}
    /\ want_numbers \in SUBSET (1..(MaxHunkLines + 1))
    /\ origin = [kind |-> "free", new |-> <<>>, unified |-> 0]
    /\ ps = PatchStart(SortHunks(hunks))
    /\ RepoIdle
    /\ sel = NoCommand
    /\ ParserIdle
    /\ ListerIdle
    /\ UnstackIdle

SpecHunks == InitHunks /\ [][NextPatch]_vars


\* ------------------------------------------------- claims on hunk order

\* The lists that hold the hunks of hs, each once, in any order.
Orderings(hs) ==
    {[i \in 1..Len(hs) |-> hs[f[i]]] :
        f \in {g \in [1..Len(hs) -> 1..Len(hs)] : \A i, j \in 1..Len(hs) : i # j => g[i] # g[j]}}

\* The addresser and the patcher answer for the list q what they answer for
\* the list of the state.
SameAnswers(q) ==
    /\ flat_file_lines_with_numbers(q) = flat_file_lines_with_numbers(hunks)
    /\ apply_selected_changes_to_old(old_lines, q, want_numbers)
           = apply_selected_changes_to_old(old_lines, hunks, want_numbers)

\* No two hunks of the list share both old_start and new_start.
DistinctKeys(hs) ==
    \A i, j \in 1..Len(hs) :
        i # j => (HunkKeyLess(hs[i], hs[j]) \/ HunkKeyLess(hs[j], hs[i]))

\* The hunks the loops go through are in ascending order of
\* (old_start, new_start), and they are the hunks of the list.
AscendingOrder ==
    /\ SortHunks(hunks) \in Orderings(hunks)
    /\ \A i \in 1..(Len(hunks) - 1) :
           ~HunkKeyLess(SortHunks(hunks)[i + 1], SortHunks(hunks)[i])

EqualKeysApplied ==
    /\ ps.phase = "done"
    /\ Len(hunks) = 2
    /\ ~DistinctKeys(hunks)
    /\ hunks[1] # hunks[2]


\* --------------------------------- claims on the order of original lines

\* The lines of q at the positions of S, in order.
Pick(q, S) ==
    LET at == SelectSeq([i \in 1..Len(q) |-> i], LAMBDA i : i \in S)
    IN  [k \in 1..Len(at) |-> q[at[k]]]

\* The texts of the selected change lines of a sign, in hunk order.
SelectedTexts(sign) ==
    LET at == {i \in ChangeLines : AllTagged[i][1] = sign /\ IdOf(i) \in want_numbers}
        picked == Pick(AllTagged, at)
    IN  [k \in 1..Len(picked) |-> Tail(picked[k])]

\* The output new, with lines that read as the selected additions taken
\* out, is the original with lines that read as the selected deletions
\* taken out.
OriginalPreserved(new) ==
    \E A \in SUBSET (1..Len(new)), D \in SUBSET (1..Len(old_lines)) :
        /\ Pick(new, A) = SelectedTexts("+")
        /\ Pick(old_lines, D) = SelectedTexts("-")
        /\ Pick(new, (1..Len(new)) \ A) = Pick(old_lines, (1..Len(old_lines)) \ D)

CurSelected == ps.num_counter \in want_numbers

\* C29: original lines are preserved in order: the cursor into the original
\* never moves backwards and never passes the end by more than one; a step
\* that does not raise appends to the output either the text of a selected
\* addition, the cursor standing still, or the original lines the cursor
\* passes, each once and in order, but for a selected deletion, which
\* passes one line and appends nothing; a success has passed every original
\* line, and its output with the selected additions taken out is the
\* original with the selected deletions taken out.
C29_OriginalLinesPreserved ==
    [][/\ ps'.old_pos >= ps.old_pos
       /\ (ps.phase \in {"hunk", "line", "tail"} /\ ps'.phase # "error") =>
              LET appended == SubSeq(ps'.new, Len(ps.new) + 1, Len(ps'.new))
                  passed == SubSeq(old_lines, ps.old_pos, ps'.old_pos - 1)
              IN  /\ ps'.old_pos <= Len(old_lines) + 1
                  /\ Len(ps'.new) >= Len(ps.new)
                  /\ SubSeq(ps'.new, 1, Len(ps.new)) = ps.new
                  /\ IF AtLine /\ CurSign = "+"
                     THEN /\ passed = <<>>
                          /\ appended = IF CurSelected THEN <<CurText>> ELSE <<>>
                     ELSE IF AtLine /\ CurSign = "-"
                     THEN /\ passed = <<CurText>>
                          /\ appended = IF CurSelected THEN <<>> ELSE passed
                     ELSE appended = passed
       /\ ps'.phase = "done" =>
              /\ ps'.old_pos = Len(old_lines) + 1
              /\ OriginalPreserved(ps'.new)]_vars

\* The second hunk starts inside the first, and the patcher has succeeded
\* with a selected deletion, a selected addition and a deletion that is not
\* selected.
C29_Witness ==
    /\ ps.phase = "done"
    /\ Len(hunks) = 2
    /\ SortHunks(hunks)[2].old_start
           < SortHunks(hunks)[1].old_start + SortHunks(hunks)[1].old_lines
    /\ SelectedTexts("-") # <<>>
    /\ SelectedTexts("+") # <<>>
    /\ \E i \in ChangeLines : AllTagged[i][1] = "-" /\ IdOf(i) \notin want_numbers

\* A hunk that starts two lines past the end of the original has been
\* applied.
AppliedBeyondEnd ==
    /\ ps.phase = "done"
    /\ \E k \in 1..Len(hunks) : hunks[k].old_start = Len(old_lines) + 2
    /\ SelectedTexts("+") # <<>>


\* ------------------------------------------------ claims on the counts

\* The call of p returns from its last step.
Reports(p) == pc[p] = "report" /\ pc'[p] = "idle"

\* The requested identifiers that correspond to a change line of the diff
\* the call has parsed.
Matching(p) == loc[p].want_set \cap (1..ChangeCount(loc[p].hunks))

\* C30: applied count is truthful: a call that succeeds reports, as
\* stats.changes_applied (which is also the count of the applied entry), the
\* number of requested identifiers that correspond to a change line of the
\* diff of the file; identifiers that match no change line are not counted.
C30_AppliedCountTruthful ==
    [][\A p \in Callers :
           Reports(p) =>
               /\ result'[p].status = "applied"
               /\ result'[p].changes_applied = Cardinality(Matching(p))]_vars

\* What the code reports: the size of the set of the requested identifiers.
AppliedCountIsRequestSize ==
    [][\A p \in Callers :
           Reports(p) => result'[p].changes_applied = Cardinality(loc[p].want_set)]_vars

\* A call has reported more changes applied than the diff of the file held
\* before it.
CountedUnknownIdentifier ==
    \E p \in Callers :
        /\ Returned(p)
        /\ result[p].status = "applied"
        /\ ~disturbed[p]
        /\ result[p].changes_applied
               > ChangeCount(GitDiff("f", index_before[p], worktree, UNIFIED_APPLY).hunks)


\* ------------------------------------------ two callers, not serialized
\*
\* Two invocations of apply_one_file on the path, their steps interleaved
\* in any way: nothing in the code holds one back while the other runs.

\* A caller makes its call when it holds no response to an earlier one.
CallOnce(p) ==
    /\ result[p].status = "none"
    /\ \E nums \in Requests : Invoke(p, nums)

NextConcurrent ==
    \E p \in Callers :
        \/ CallOnce(p)
        \/ DiffBinary(p)
        \/ DiffNothing(p)
        \/ DiffHunks(p)
        \/ ReadIndexDrift(p)
        \/ ReadIndexPatched(p)
        \/ DetectMode(p)
        \/ WriteIndex(p)
        \/ Report(p)

\* The path is tracked as a regular file of terminated lines, and the
\* working file holds terminated lines or binary data. (The texts are
\* interchangeable, so the entry holds them in one order.)
InitConcurrent ==
    /\ index \in [present : {TRUE},
                  content : {AsContent(q) : q \in {<<>>, <<<<"a">>>>, <<<<"a">>, <<"b">>>>}},
                  mode : {"100644"}]
    /\ worktree \in [present : {TRUE},
                     content : {AsContent(c.lines) : c \in TextContents} \cup {BinaryContent},
                     exec : {FALSE}]
    /\ pc = [p \in Callers |-> "idle"]
    /\ loc = [p \in Callers |-> NoLocals]
    /\ result = [p \in Callers |-> NoResult]
    /\ index_before = [p \in Callers |-> index]
    /\ disturbed = [p \in Callers |-> FALSE]
    /\ last = [p \in Callers |-> NoLast]
    /\ sel = NoCommand
    /\ PatchIdle
    /\ ParserIdle
    /\ ListerIdle
    /\ UnstackIdle

SpecConcurrent == InitConcurrent /\ [][NextConcurrent]_vars


\* ------------------------------------------- claims on concurrent applies

\* The call of p has written the index and is about to report.
Wrote(p) == pc[p] = "report"

\* What the call of p has written.
Mine(p) == JoinedContent(loc[p].new_lines, loc[p].had_trailing_nl)

\* What the call of p has read.
Seen(p) == [binary |-> FALSE, lines |-> loc[p].old_lines, nl |-> loc[p].had_trailing_nl]

\* The call of p has written another content than it read.
StagedSomething(p) == Mine(p) # Seen(p)

\* A lost update: p and q have both written the index and are both about to
\* report success; both read the same entry, computed the same diff and
\* staged changes of it, no change selected by both; and the index holds
\* what p wrote, the patch of the entry they read by the selection of p
\* alone.
LostUpdate(p, q) ==
    /\ p # q
    /\ Wrote(p) /\ Wrote(q)
    /\ loc[p].old_lines = loc[q].old_lines
    /\ loc[p].hunks = loc[q].hunks
    /\ StagedSomething(p) /\ StagedSomething(q)
    /\ loc[p].want_set \cap loc[q].want_set = {}
    /\ index.content = Mine(p)
    /\ Mine(p) # Mine(q)

\* C22: unserialized applies are unsafe: a lost update happens only to a
\* call during which the other call wrote the index; a call during which
\* nobody else wrote the index has patched the entry that was there when it
\* began, by the diff of that entry, and the index holds what it wrote; and
\* every call that wrote the index reports success.
C22_LostUpdateOnlyWhenInterleaved ==
    [][\A p \in Callers :
           /\ \A q \in Callers : LostUpdate(p, q) => (disturbed[p] /\ pc[q] # "idle")
           /\ (Wrote(p) /\ ~disturbed[p]) =>
                  /\ index_before[p].present
                  /\ loc[p].old_lines = index_before[p].content.lines
                  /\ loc[p].had_trailing_nl = index_before[p].content.nl
                  /\ loc[p].hunks = GitDiff("f", index_before[p], worktree, UNIFIED_APPLY).hunks
                  /\ apply_selected_changes_to_old(
                         index_before[p].content.lines, loc[p].hunks, loc[p].want_set)
                         = [ok |-> TRUE, lines |-> loc[p].new_lines, err |-> "none"]
                  /\ index.content = Mine(p)
           /\ Reports(p) => result'[p].status = "applied"]_vars

\* Two calls, their steps interleaved, have both written the index, each a
\* change the other did not select, and the index holds the change of one
\* of them only.
C22_Witness == \E p, q \in Callers : LostUpdate(p, q)

\* ---------------------------------------------------- pages of list_files

\* PAGE_SIZE_BYTES_DEFAULT = 30 * 1024
PAGE_SIZE_BYTES_DEFAULT == 30 * 1024

\* Largest file index, of either sign, a forged page token carries.
MaxFileIndex == 4

\* What the diff holds for a path: a binary file, an untracked file of one
\* line, a modified line, an added line whose diff weighs MAX_DIFF_BYTES, and
\* one that weighs a byte more.
FileKinds(path) ==
    {ChangedFile(path, TRUE, "modified", <<>>),
     ChangedFile(path, FALSE, "added", <<HunkRaw(path, 0, 0, 1, 1, << <<"+", "a">> >>)>>),
     ChangedFile(path, FALSE, "modified",
                 <<HunkRaw(path, 1, 1, 1, 1, << <<"-", "a">>, <<"+", "b">> >>)>>),
     ChangedFile(path, FALSE, "added", <<HunkRaw(path, 0, 0, 1, 1, << <<"+", "W", "a">> >>)>>),
     ChangedFile(path, FALSE, "added",
                 <<HunkRaw(path, 0, 0, 1, 1, << <<"+", "W", "a", "b">> >>)>>)}

\* The dictionaries of parse_unified_diff: distinct paths, in any order.
ParsedDiffs ==
    {fs \in SeqsUpTo(UNION {FileKinds(PathNames[k]) : k \in 1..Len(PathNames)}, Len(PathNames)) :
        \A i, j \in 1..Len(fs) : i # j => fs[i].path # fs[j].path}

PageSizesFiles == 0..Len(PathNames)

\* No limit to speak of, one that a file of one line stays under and one of
\* two lines reaches, and the default.
PageSizesBytes == {0, 10, PAGE_SIZE_BYTES_DEFAULT}

\* Tokens a client can make up: any index, text of a length base64 never has,
\* a JSON array, an object without the key, and text that is not JSON.
ForgedTokens ==
    {EncodeToken(i) : i \in (0 - MaxFileIndex)..MaxFileIndex}
        \cup {Token(5, "index", 1), Token(B64Len(3), "array", 0), Token(B64Len(8), "no_key", 0),
              Token(3, "garbage", 0)}

InitList ==
    /\ lister \in [files_hunks : ParsedDiffs, page_size_files : PageSizesFiles,
                   page_size_bytes : PageSizesBytes, started : {"no"}, asked : {None},
                   page : {None}, seen : {<<>>}, answers : {<<>>}]
    /\ PatchIdle
    /\ RepoIdle
    /\ sel = NoCommand
    /\ ParserIdle
    /\ UnstackIdle

\* The paths of the entries of a page.
PathsOf(files) == [k \in 1..Len(files) |-> files[k].path]

\* One call of list_files with the token page_token.
ListCall(page_token, started) ==
    LET r == list_files(lister.files_hunks, page_token, lister.page_size_files,
                        lister.page_size_bytes)
    IN  /\ lister' = [lister EXCEPT !.started = started, !.asked = page_token,
                                    !.page = Some(r), !.seen = @ \o PathsOf(r.files)]
        /\ UNCHANGED <<patchVars, repoVars, sel, parser, unstackVars>>

\* The first call of a traversal passes no token.
ListFirst ==
    /\ lister.started = "no"
    /\ ListCall(None, "fresh")

\* A call with a token that no page has handed out.
ListWithToken ==
    /\ lister.started = "no"
    /\ \E tok \in ForgedTokens : ListCall(Some(tok), "token")

\* The client passes page_token_next of the last page.
ListNextPage ==
    /\ lister.started # "no"
    /\ lister.page[1].page_token_next # None
    /\ ListCall(lister.page[1].page_token_next, lister.started)

NextList == ListFirst \/ ListWithToken \/ ListNextPage

SpecList == InitList /\ [][NextList]_vars

\* A traversal: the client begins without a token and keeps asking for the
\* next page while the last page names one.
NextTraversal == ListFirst \/ ListNextPage

SpecTraversal == InitList /\ [][NextTraversal]_vars /\ WF_vars(ListNextPage)

\* ------------------------------------------------- claims on list_files

\* The last call of list_files returned a page.
PageReturned == lister.page # None /\ ~lister.page[1].raised

\* The last call of list_files raised an error.
CallRaised == lister.page # None /\ lister.page[1].raised

\* The start index the last call took from its token.
StartIndex == DecodeToken(lister.asked).start_idx

\* The last call read a start index from its token.
HasStartIndex == lister.page # None /\ ~DecodeToken(lister.asked).raised

\* C24: for every page_size_bytes and every page_size_files >= 1, a call of
\* list_files whose start index is below the number of changed files
\* returns at least one file: the byte limit is tested only once a file has
\* added bytes to the page.
C24_PageNeverEmpty ==
    (HasStartIndex /\ lister.page_size_files >= 1 /\ StartIndex < Len(lister.files_hunks))
        => (PageReturned /\ Len(lister.page[1].files) >= 1)

\* The same for a start index that is not negative.
PageNeverEmptyFromZero ==
    (HasStartIndex /\ lister.page_size_files >= 1 /\ StartIndex >= 0
        /\ StartIndex < Len(lister.files_hunks))
        => (PageReturned /\ Len(lister.page[1].files) >= 1)

\* A call with a negative start index raised instead of returning a page.
RaisedBelowZero ==
    CallRaised /\ HasStartIndex /\ lister.page_size_files >= 1 /\ StartIndex < 0
        /\ Len(lister.files_hunks) > 0

\* A call with a negative start index returned a file twice.
ListedTwice ==
    PageReturned /\ \E i, j \in 1..Len(lister.page[1].files) :
                    i # j /\ lister.page[1].files[i].path = lister.page[1].files[j].path

\* The byte limit was reached by the one file of the page.
ByteLimitPassedOnce ==
    PageReturned /\ Len(lister.page[1].files) = 1
        /\ lister.page[1].stats.page_bytes > lister.page_size_bytes
        /\ lister.page_size_files > 1 /\ lister.page[1].page_token_next # None

\* The changed paths, in ascending order.
SortedPaths ==
    SelectSeq(PathNames,
              LAMBDA p : \E k \in 1..Len(lister.files_hunks) : lister.files_hunks[k].path = p)

\* s is the beginning of t.
IsPrefix(s, t) == Len(s) <= Len(t) /\ SubSeq(t, 1, Len(s)) = s

\* The calls made so far are a traversal that began without a token.
Traversing == lister.started = "fresh"

\* The last page names no next page.
LastPage == PageReturned /\ lister.page[1].page_token_next = None

\* What the pages of a traversal hold: no page more than page_size_files
\* files, the paths of the pages so far laid end to end are the first of the
\* changed paths in ascending order, and all of them once the traversal has
\* finished.
TraversalSafe ==
    Traversing =>
        /\ PageReturned
        /\ Len(lister.page[1].files) <= lister.page_size_files
        /\ IsPrefix(lister.seen, SortedPaths)
        /\ LastPage => lister.seen = SortedPaths

\* C25: over an unchanged diff and with fixed page sizes, a traversal that
\* starts with no token and passes each page_token_next to the next call
\* eventually gets a page without page_token_next; its pages are disjoint,
\* hold every changed path exactly once in ascending order, and none holds
\* more than page_size_files files.
C25_TraversalComplete == []TraversalSafe /\ (Traversing ~> LastPage)

\* C25, for page_size_files >= 1: a traversal with page_size_files >= 1
\* eventually gets a page without page_token_next; the pages of every
\* traversal are disjoint, hold every changed path at most once in ascending
\* order and all of them at the end, and none holds more than
\* page_size_files files.
C25_TraversalCompleteWithRoomForAFile ==
    []TraversalSafe /\ ((Traversing /\ lister.page_size_files >= 1) ~> LastPage)

\* A traversal has finished with its third page, the byte limit having
\* closed the pages before.
C25_Witness ==
    /\ Traversing /\ LastPage
    /\ lister.page_size_files = Len(PathNames)
    /\ lister.seen = PathNames
    /\ Len(lister.page[1].files) = 1
    /\ lister.asked = Some(EncodeToken(2))
    /\ lister.files_hunks[1].path # PathNames[1]

\* A traversal with page_size_files = 0 got an empty page whose token asks
\* for the very page again.
TraversalStuck ==
    /\ Traversing
    /\ lister.page[1].files = <<>>
    /\ lister.asked # None
    /\ lister.page[1].page_token_next = lister.asked

\* The file of the diff that an entry of the page stands for.
SourceOf(e) ==
    CHOOSE f \in {lister.files_hunks[k] : k \in 1..Len(lister.files_hunks)} : f.path = e.path

\* The bytes of the numbered lines of the entries that are neither binary
\* nor truncated.
RECURSIVE BytesOfFullEntries(_)
BytesOfFullEntries(files) ==
    IF files = <<>> THEN 0
    ELSE (IF Head(files).binary \/ Head(files).truncated THEN 0
          ELSE SumEncodedLen(Head(files).lines))
             + BytesOfFullEntries(Tail(files))

\* C26: list_files returns a non-binary file truncated and with no lines
\* exactly when the bytes of its hunk lines exceed MAX_DIFF_BYTES; every
\* other non-binary file comes with all its numbered lines; truncated and
\* binary files add nothing to the bytes of the page, and
\* stats.truncated_files is the number of truncated files of the page.
C26_TruncationOfLargeDiffs ==
    PageReturned =>
        LET page == lister.page[1]
        IN  /\ \A k \in 1..Len(page.files) :
                   LET e == page.files[k]
                       f == SourceOf(e)
                   IN  /\ e.binary = f.binary
                       /\ e.truncated <=>
                              (~f.binary /\ calculate_diff_size(f.hunks) > MAX_DIFF_BYTES)
                       /\ (e.truncated \/ e.binary) => e.lines = <<>>
                       /\ (~e.binary /\ ~e.truncated) =>
                              e.lines = flat_file_lines_with_numbers(f.hunks)
            /\ page.stats.page_bytes = BytesOfFullEntries(page.files)
            /\ page.stats.truncated_files =
                   Cardinality({k \in 1..Len(page.files) : page.files[k].truncated})

\* A page holds a binary file, a file a byte over the limit, truncated, and
\* a file of exactly MAX_DIFF_BYTES with its one line, whose bytes are all
\* the bytes of the page.
C26_Witness ==
    /\ PageReturned
    /\ \E b, t, w \in 1..Len(lister.page[1].files) :
           /\ lister.page[1].files[b].binary
           /\ lister.page[1].files[t].truncated
           /\ calculate_diff_size(SourceOf(lister.page[1].files[t]).hunks) = MAX_DIFF_BYTES + 1
           /\ Len(lister.page[1].files[w].lines) = 1
           /\ calculate_diff_size(SourceOf(lister.page[1].files[w]).hunks) = MAX_DIFF_BYTES
    /\ lister.page[1].stats.truncated_files = 1
    /\ lister.page[1].stats.page_bytes = MAX_DIFF_BYTES + 7
    /\ lister.asked = None

\* ------------------------------------------------- the read-only calls

\* "added" for a path of untracked_set (git ls-files --others), "deleted"
\* for one of deleted_set (git ls-files --deleted), "modified" otherwise.
StatusOf(entry, file) ==
    IF ~entry.present THEN "added" ELSE IF ~file.present THEN "deleted" ELSE "modified"

\* get_diff_with_untracked(paths, unified) followed by parse_unified_diff, in
\* the repository of the one path "f": no path asks for all the files.
RepoDiff(paths, entry, file, unified) ==
    IF paths # <<>> /\ "f" \notin ToSet(paths) THEN <<>>
    ELSE LET d == GitDiff("f", entry, file, unified)
         IN  IF d.listed THEN <<ChangedFile("f", d.binary, StatusOf(entry, file), d.hunks)>>
             ELSE <<>>

\* The MCP tool diff: the whole numbered diff of one path, however large.
diff(path, entry, file, unified) ==
    LET fs == RepoDiff(<<path>>, entry, file, unified)
    IN  IF fs = <<>>
        THEN [path |-> path, error |-> TRUE, binary |-> FALSE, status |-> "none",
              lines |-> <<>>, size_bytes |-> 0]
        ELSE IF fs[1].binary
        THEN [path |-> path, error |-> FALSE, binary |-> TRUE, status |-> fs[1].status,
              lines |-> <<>>, size_bytes |-> 0]
        ELSE [path |-> path, error |-> FALSE, binary |-> FALSE, status |-> fs[1].status,
              lines |-> flat_file_lines_with_numbers(fs[1].hunks),
              size_bytes |-> SumEncodedLen(flat_file_lines_with_numbers(fs[1].hunks))]

\* The index entry of the path after the git commands of a read-only call:
\* git diff and git ls-files read the index and the working tree.
EntryAfterReading_Staged(entry, file) ==
    IF file.present THEN update_index_with_content("100644", file.content) ELSE entry

EntryAfterReading(entry, file) == entry

\* The context widths a reader asks for.
ReadWidths == {0, UNIFIED_APPLY}

\* The calls of list_files: all the paths or a path without changes, no
\* token or a forged one, a page without room or with room for a file.
ListQueries ==
    [op : {"list_files"}, paths : {<<>>, <<"g">>}, path : {"f"},
     page_token : {None, Some(EncodeToken(0 - 2))}, page_size_files : {0, 1},
     page_size_bytes : {PAGE_SIZE_BYTES_DEFAULT}, unified : ReadWidths]

\* The calls of the diff tool and of current_file_lines.
PathQueries(op) ==
    [op : {op}, paths : {<<>>}, path : {"f", "g"}, page_token : {None}, page_size_files : {0},
     page_size_bytes : {0}, unified : ReadWidths]

\* What the call q returns in a repository whose path has this entry and
\* this file.
Answer(q, entry, file) ==
    IF q.op = "list_files"
    THEN list_files(RepoDiff(q.paths, entry, file, q.unified), q.page_token,
                    q.page_size_files, q.page_size_bytes)
    ELSE IF q.op = "diff" THEN diff(q.path, entry, file, q.unified)
    ELSE current_file_lines(q.path, IF q.path = "f" THEN entry ELSE NoEntry,
                            IF q.path = "f" THEN file ELSE NoFile, q.unified)

\* The answer to the call q, kept with the entry the path had and with
\* whether the read-only call before it was the same call on the same entry.
Noted(q) ==
    Some([query |-> q, answer |-> Answer(q, index, worktree), index |-> index,
          again |-> /\ lister.answers # None
                    /\ lister.answers[1].query = q
                    /\ lister.answers[1].index = index])

\* What a read-only call has no hand in.
readFrame ==
    <<patchVars, worktree, pc, loc, result, index_before, disturbed, last, sel, parser,
      unstackVars>>

\* A call of list_files.
ReadList ==
    \E q \in ListQueries :
        /\ lister' = [lister EXCEPT !.answers = Noted(q)]
        /\ index' = EntryAfterReading(index, worktree)
        /\ UNCHANGED readFrame

\* A call of the diff tool.
ReadDiff ==
    \E q \in PathQueries("diff") :
        /\ lister' = [lister EXCEPT !.answers = Noted(q)]
        /\ index' = EntryAfterReading(index, worktree)
        /\ UNCHANGED readFrame

\* A call of current_file_lines.
ReadLines ==
    \E q \in PathQueries("current_file_lines") :
        /\ lister' = [lister EXCEPT !.answers = Noted(q)]
        /\ index' = EntryAfterReading(index, worktree)
        /\ UNCHANGED readFrame

\* The read-only calls, in any order, beside one caller of apply_one_file:
\* nobody else writes the index, so that the caller finds no drift.
NextRead ==
    \/ ReadList
    \/ ReadDiff
    \/ ReadLines
    \/ CallOnce(1)
    \/ DiffBinary(1)
    \/ DiffNothing(1)
    \/ DiffHunks(1)
    \/ ReadIndexPatched(1)
    \/ DetectMode(1)
    \/ WriteIndex(1)
    \/ Report(1)

\* The path is untracked or tracked, and its file is absent, text or binary.
InitRead ==
    /\ index \in {NoEntry}
                     \cup [present : {TRUE}, content : {AsContent(<< <<"a">> >>)},
                           mode : {"100644"}]
    /\ worktree \in {NoFile}
                        \cup [present : {TRUE},
                              content : {AsContent(c.lines) : c \in TextContents}
                                            \cup {BinaryContent},
                              exec : {FALSE}]
    /\ pc = [p \in Callers |-> "idle"]
    /\ loc = [p \in Callers |-> NoLocals]
    /\ result = [p \in Callers |-> NoResult]
    /\ index_before = [p \in Callers |-> index]
    /\ disturbed = [p \in Callers |-> FALSE]
    /\ last = [p \in Callers |-> NoLast]
    /\ ListerIdle
    /\ sel = NoCommand
    /\ PatchIdle
    /\ ParserIdle
    /\ UnstackIdle

SpecRead == InitRead /\ [][NextRead]_vars

\* ------------------------------------------- claims on read-only calls

\* The step is a read-only call.
IsReadOnlyCall == lister'.answers # lister.answers

AnswerChangedByApply ==
    /\ lister.answers # None
    /\ lister.answers[1].query.op = "diff"
    /\ lister.answers[1].index # index
    /\ lister.answers[1].answer # Answer(lister.answers[1].query, index, worktree)
    /\ result[1].status = "applied"

\* A call of list_files raised an error.
ReadRaised == lister.answers # None /\ lister.answers[1].query.op = "list_files"
                  /\ lister.answers[1].answer.raised

====
